---- MODULE Spec2Model ----
(***************************************************************************)
(* Partitioned FamDB (famdb_classes.py, famdb_helper_classes.py,           *)
(* famdb_helper_methods.py): taxonomy partitions, cross-partition lineage  *)
(* stitching and the filtered accession query.                             *)
(*                                                                         *)
(* A Python nested list is a sequence of elements; an element is an int,   *)
(* a link string ("leaf_link:<id>" / "root_link:<id>") or a list.  The     *)
(* text of repr()/str() is a sequence of tokens: brackets, numerals, quote *)
(* characters and the text of a link string.  The ", " separators are not  *)
(* represented: the code replaces one list element by one list element,   *)
(* so separators never decide whether the text parses.  A stored id is     *)
(* printed as its decimal numeral.                                         *)
(***************************************************************************)
EXTENDS Integers, Sequences, FiniteSets, TLC

\* ---------------------------------------------------------------- bounds
MaxTaxon == 4
MaxPart == 2

Taxa == 1..MaxTaxon
Parts == 0..MaxPart
QueryIds == 1..(MaxTaxon + 1)

\* ------------------------------------------------------------- constants
LEAF_LINK == "leaf_link:"
ROOT_LINK == "root_link:"
\* Python None where a partition number is expected (find_taxon, parent_of)
None == 0 - 1

VARIABLES
    tax_db,      \* the external taxonomy dump: taxon id -> parent id (0: none)
    nodes,       \* per partition: GROUP_NODES, taxon id -> [Parent, Children]
    names_dump,  \* root partition: partition -> (taxon id -> name records)
    files,       \* FamDB.files: the partition numbers whose file is open
    pc,          \* position of the caller: "idle" or "returned"
    result,      \* what the last get_lineage_combined call gave the caller
    addres,      \* what the last Lineage.__add__ call gave the caller
    listing,     \* FamDB.files in dict order: the open partitions as listed
    families,    \* per partition: accession -> attrs of the dataset under its bin
    by_name,     \* per partition: GROUP_LOOKUP_BYNAME, name -> accession linked
    by_stage,    \* per partition: GROUP_LOOKUP_BYSTAGE, stage -> accessions linked
    node_families, \* per partition: taxon id -> accessions in its Families group
    added,       \* per partition: FamDBLeaf.added, the two counters
    famres,      \* what the last add_family call gave the caller
    accres,      \* what the last get_accessions_filtered call gave the caller
    directory,   \* db_dir: file name -> the attributes stored in the file
    openres,     \* what the last FamDB(...) or FamDBLeaf(...) call gave the caller
    attrs,       \* per partition: the count and db_* attributes stored in the file
    open_mode,   \* the mode the partitions are open in
    tally,       \* the builder's own record of what it wrote
    metares,     \* what the last finalize / get_counts / get_db_info call gave
    callres,     \* what the last call of a name search, helper or utility gave
    lineage_cache \* per Database instance: FamDBRoot.__lineage_cache, taxon id -> path

tax_vars == <<tax_db, nodes, names_dump, files, listing>>
fam_vars == <<families, by_name, by_stage, node_families, added>>
io_vars == <<directory, openres>>
meta_vars == <<attrs, open_mode, tally, metares>>
call_vars == <<callres, lineage_cache>>
vars == <<tax_db, nodes, names_dump, files, pc, result, addres, listing,
          families, by_name, by_stage, node_families, added, famres, accres,
          directory, openres, attrs, open_mode, tally, metares, callres, lineage_cache>>

\* ------------------------------------------------------- nested list values
IntE(n) == [k |-> "int", v |-> n, sub |-> <<>>]
StrE(kind, n) == [k |-> kind, v |-> n, sub |-> <<>>]
ListE(s) == [k |-> "list", v |-> 0, sub |-> s]

IsStr(e) == e.k \in {LEAF_LINK, ROOT_LINK}

Tok(t, n) == [t |-> t, v |-> n]

RECURSIVE ReprElems(_)
\* the text of the elements of a list, in order
ReprElems(s) ==
    IF s = <<>> THEN <<>>
    ELSE LET e == Head(s)
             here == IF e.k = "int" THEN <<Tok("int", e.v)>>
                     ELSE IF e.k = "list"
                          THEN <<Tok("[", 0)>> \o ReprElems(e.sub) \o <<Tok("]", 0)>>
                          ELSE <<Tok("'", 0), Tok(e.k, e.v), Tok("'", 0)>>
         IN here \o ReprElems(Tail(s))

\* list.__repr__ / str(list)
Repr(s) == <<Tok("[", 0)>> \o ReprElems(s) \o <<Tok("]", 0)>>

RECURSIVE SplitQ(_)
\* str.split("'")
SplitQ(toks) ==
    IF \A i \in 1..Len(toks) : toks[i].t # "'" THEN <<toks>>
    ELSE LET i == CHOOSE j \in 1..Len(toks) :
                    /\ toks[j].t = "'"
                    /\ \A h \in 1..(j - 1) : toks[h].t # "'"
         IN <<SubSeq(toks, 1, i - 1)>> \o SplitQ(SubSeq(toks, i + 1, Len(toks)))

\* LEAF_LINK in <text>
HasText(toks, kind) == \E i \in 1..Len(toks) : toks[i].t = kind

RECURSIVE Join(_)
\* "".join(pieces)
Join(pieces) == IF pieces = <<>> THEN <<>> ELSE Head(pieces) \o Join(Tail(pieces))

ParseFail == [ok |-> FALSE, val |-> IntE(0), items |-> <<>>, next |-> 0]

RECURSIVE ParseVal(_, _), ParseItems(_, _)
\* json: one value starting at token i
ParseVal(toks, i) ==
    IF i > Len(toks) THEN ParseFail
    ELSE IF toks[i].t = "int"
         THEN [ok |-> TRUE, val |-> IntE(toks[i].v), items |-> <<>>, next |-> i + 1]
    ELSE IF toks[i].t = "["
         THEN LET r == ParseItems(toks, i + 1)
              IN IF r.ok THEN [ok |-> TRUE, val |-> ListE(r.items), items |-> <<>>,
                               next |-> r.next]
                 ELSE ParseFail
    ELSE IF /\ toks[i].t = "\""
            /\ i + 2 <= Len(toks)
            /\ toks[i + 1].t \in {LEAF_LINK, ROOT_LINK}
            /\ toks[i + 2].t = "\""
         THEN [ok |-> TRUE, val |-> StrE(toks[i + 1].t, toks[i + 1].v), items |-> <<>>,
               next |-> i + 3]
    ELSE ParseFail

\* json: the items of an array up to and including its closing bracket
ParseItems(toks, i) ==
    IF i > Len(toks) THEN ParseFail
    ELSE IF toks[i].t = "]"
         THEN [ok |-> TRUE, val |-> IntE(0), items |-> <<>>, next |-> i + 1]
    ELSE LET v == ParseVal(toks, i)
         IN IF ~v.ok THEN ParseFail
            ELSE LET r == ParseItems(toks, v.next)
                 IN IF ~r.ok THEN ParseFail
                    ELSE [ok |-> TRUE, val |-> IntE(0), items |-> <<v.val>> \o r.items,
                          next |-> r.next]

\* json.loads(text): ok is FALSE where it raises JSONDecodeError
Loads(toks) ==
    LET v == ParseVal(toks, 1)
    IN IF v.ok /\ v.next = Len(toks) + 1 /\ v.val.k = "list"
       THEN [ok |-> TRUE, val |-> v.val.sub]
       ELSE [ok |-> FALSE, val |-> <<>>]


\* ------------------------------------------------------------ Lineage class
NoLineage(msg) ==
    [exc |-> msg, tree |-> <<>>, ancestors |-> FALSE, descendants |-> FALSE,
     root |-> FALSE, partition |-> 0, leaf |-> <<>>, rootlink |-> <<>>,
     splits |-> <<>>]

\* the id of the link string held by a piece of the split text
LinkId(piece) ==
    LET i == CHOOSE j \in 1..Len(piece) : piece[j].t = LEAF_LINK IN piece[i].v

\* Lineage.__init__(lineage, root, partition_num); exc names what it raises
Lineage(lineage, root, partition_num) ==
    LET lin_str == Repr(lineage)
        splits == SplitQ(lin_str)
        hasLeaf == HasText(lin_str, LEAF_LINK)
        hasRoot == ~hasLeaf /\ HasText(lin_str, ROOT_LINK)
        \* lineage[1][0] exists
        indexable == /\ Len(lineage) >= 2
                     /\ lineage[2].k = "list"
                     /\ Len(lineage[2].sub) >= 1
        leaf == IF hasLeaf
                THEN [i \in {j \in 1..Len(splits) : HasText(splits[j], LEAF_LINK)}
                        |-> LinkId(splits[i])]
                ELSE <<>>
        rootlink == IF hasRoot /\ indexable
                    THEN <<[key |-> lineage[2].sub[1], subtree |-> Repr(lineage[2].sub)]>>
                    ELSE <<>>
    IN IF hasLeaf /\ ~root THEN NoLineage("Leaf Links Found In Non-Root Lineage")
       ELSE IF hasRoot /\ root THEN NoLineage("Root Links found In Root Lineage")
       ELSE IF hasRoot /\ ~indexable THEN NoLineage("IndexError")
       ELSE [exc |-> "", tree |-> lineage, ancestors |-> hasRoot,
             descendants |-> hasLeaf, root |-> root, partition |-> partition_num,
             leaf |-> leaf, rootlink |-> rootlink, splits |-> splits]

\* mutant: the subtree is handed out whatever node is asked for
RootLinkGet_AnyKey(leaf_lineage, node) ==
    IF leaf_lineage.rootlink # <<>> THEN leaf_lineage.rootlink[1].subtree ELSE <<>>

\* leaf_lineage.links[ROOT_LINK].get(node): the subtree text, <<>> for None
RootLinkGet(leaf_lineage, node) ==
    IF /\ leaf_lineage.rootlink # <<>>
       /\ leaf_lineage.rootlink[1].key.k = "int"
       /\ leaf_lineage.rootlink[1].key.v = node
    THEN leaf_lineage.rootlink[1].subtree
    ELSE <<>>

\* mutant: the result takes the ownership of the non-root operand
AddOwner_Leaf(root_lineage, leaf_lineage) ==
    [root |-> leaf_lineage.root, partition |-> leaf_lineage.partition]

\* the result keeps the root operand's ownership
AddOwner(root_lineage, leaf_lineage) ==
    [root |-> root_lineage.root, partition |-> root_lineage.partition]

\* mutant: the spliced lineage forgets the leaf links it still holds
linked_LinksForgotten(owner, linked_lineage) ==
    IF ~linked_lineage.ok THEN NoLineage("JSONDecodeError")
    ELSE [Lineage(linked_lineage.val, owner.root, owner.partition) EXCEPT !.leaf = <<>>]

\* the tail of __add__: the joined text is read back and wrapped (lines 67-69)
linked(owner, linked_lineage) ==
    IF ~linked_lineage.ok THEN NoLineage("JSONDecodeError")
    ELSE Lineage(linked_lineage.val, owner.root, owner.partition)

\* the body of __add__ once the operands are told apart (lines 53-69)
splice(root_lineage, leaf_lineage) ==
    LET leaf_links == root_lineage.leaf
        splits == root_lineage.splits
        replaced == [i \in 1..Len(splits) |->
                        LET subtree == IF i \in DOMAIN leaf_links
                                       THEN RootLinkGet(leaf_lineage, leaf_links[i])
                                       ELSE <<>>
                        IN IF subtree # <<>> THEN subtree ELSE splits[i]]
        full_lineage == [i \in 1..Len(splits) |->
                            IF HasText(replaced[i], LEAF_LINK)
                            THEN <<Tok("\"", 0)>> \o replaced[i] \o <<Tok("\"", 0)>>
                            ELSE replaced[i]]
    IN IF DOMAIN leaf_links # {} /\ leaf_lineage.rootlink = <<>>
       THEN NoLineage("AttributeError")
       ELSE linked(AddOwner(root_lineage, leaf_lineage), Loads(Join(full_lineage)))

\* Lineage.__add__(self, other)
LineageAdd(self, other) ==
    IF (self.root /\ other.root) \/ (~self.root /\ ~other.root)
    THEN NoLineage("Must Combine Root and Non-Root Lineages")
    ELSE IF self.root THEN splice(self, other) ELSE splice(other, self)

\* ----------------------------------------------------- taxonomy storage
RECURSIVE SortedSeq(_)
\* a set of ids as the ordered list the dump gives
SortedSeq(S) ==
    IF S = {} THEN <<>>
    ELSE LET m == CHOOSE x \in S : \A y \in S : x <= y
         IN <<m>> \o SortedSeq(S \ {m})

\* FamDBLeaf.write_taxonomy(tax_db, nodes): the node table of one partition
write_taxonomy(db, nodeset) ==
    [n \in nodeset |->
        [Parent |-> IF n # 1 THEN db[n] ELSE 0,
         Children |-> SortedSeq({c \in DOMAIN db : db[c] = n})]]

\* FamDBRoot.write_taxa_names(tax_db, nodes): one names map per partition
write_taxa_names(db, part) ==
    [p \in {part[n] : n \in DOMAIN part} |->
        [n \in {m \in DOMAIN part : part[m] = p} |->
            <<[name_class |-> "scientific name", text |-> n]>>]]

\* FamDBRoot.find_taxon(tax_id)
find_taxon(tax_id) ==
    LET holders == {p \in DOMAIN names_dump : tax_id \in DOMAIN names_dump[p]}
    IN IF holders = {} THEN None
       ELSE CHOOSE p \in holders : \A q \in holders : p <= q

\* FamDBRoot.parent_of(tax_id)
parent_of(tax_id) ==
    LET group_nodes == nodes[0]
        found == {n \in DOMAIN group_nodes :
                    \E i \in 1..Len(group_nodes[n].Children) :
                        group_nodes[n].Children[i] = tax_id}
    IN IF found = {} THEN None
       ELSE CHOOSE n \in found : \A m \in found : n <= m

\* FamDBLeaf.is_root()
is_root(p) == p = 0

RECURSIVE descendants_of(_, _, _), descendants_kids(_, _, _, _)
\* get_lineage.descendants_of(tax_id) on partition p
descendants_of(p, tax_id, for_combine) ==
    <<IntE(tax_id)>> \o descendants_kids(p, nodes[p][tax_id].Children, 1, for_combine)

\* the loop over the Children dataset, from index i on
descendants_kids(p, kids, i, for_combine) ==
    IF i > Len(kids) THEN <<>>
    ELSE LET child == kids[i]
             here == IF ~for_combine /\ child \in DOMAIN nodes[p]
                     THEN <<ListE(descendants_of(p, child, for_combine))>>
                     ELSE IF is_root(p) THEN <<StrE(LEAF_LINK, child)>>
                     ELSE <<>>
         IN here \o descendants_kids(p, kids, i + 1, for_combine)

RECURSIVE ancestors_walk(_, _, _)
\* the "while tax_id" loop of get_lineage
ancestors_walk(p, tax_id, tree) ==
    LET node == nodes[p][tax_id]
    IN IF node.Parent # 0
       THEN IF node.Parent \in DOMAIN nodes[p]
            THEN ancestors_walk(p, node.Parent, <<IntE(node.Parent), ListE(tree)>>)
            ELSE <<StrE(ROOT_LINK, tax_id), ListE(tree)>>
       ELSE tree

\* "if ancestors:" around the walk
climb(p, tax_id, ancestors, tree) ==
    IF ancestors THEN ancestors_walk(p, tax_id, tree) ELSE tree

\* FamDBLeaf.get_lineage(tax_id, ancestors=, descendants=, for_combine=)
get_lineage(p, tax_id, ancestors, descendants, for_combine) ==
    IF tax_id \notin DOMAIN nodes[p] THEN NoLineage("KeyError")
    ELSE Lineage(climb(p, tax_id, ancestors,
                       IF descendants THEN descendants_of(p, tax_id, for_combine)
                       ELSE <<IntE(tax_id)>>),
                 is_root(p), p)


\* ------------------------------------------------ FamDB.get_lineage_combined
\* base_lineage.links[LEAF_LINK].values(), in dict order
LeafLinkValues(lin) ==
    LET P == SortedSeq(DOMAIN lin.leaf) IN [i \in 1..Len(P) |-> lin.leaf[P[i]]]

\* "loc and loc in self.files" / "loc and loc not in self.files"
LinkInstalled(loc) == loc # None /\ loc # 0 /\ loc \in files
LinkAbsent(loc) == loc # None /\ loc # 0 /\ loc \notin files

\* the Lineage of one node that stands for a subtree whose file is absent
MissingLineage(taxa, loc) ==
    Lineage(<<StrE(ROOT_LINK, taxa), ListE(<<IntE(taxa)>>)>>, FALSE, loc)

\* mutant: the linked subtree is asked for without its descendants
linked_subtree_NoDescendants(loc, taxa) == get_lineage(loc, taxa, TRUE, FALSE, FALSE)

\* the subtree of an installed partition (lines 733-735)
linked_subtree(loc, taxa) == get_lineage(loc, taxa, TRUE, TRUE, FALSE)

RECURSIVE add_lineages(_, _)
\* the loop that fills add_lineages, from index i of the link values on
add_lineages(taxas, i) ==
    IF i > Len(taxas) THEN <<>>
    ELSE LET taxa == taxas[i]
             loc == find_taxon(taxa)
             here == IF LinkInstalled(loc)
                     THEN <<linked_subtree(loc, taxa)>>
                     ELSE IF LinkAbsent(loc) THEN <<MissingLineage(taxa, loc)>>
                     ELSE <<>>
         IN here \o add_lineages(taxas, i + 1)

\* mutant: every linked child is recorded, installed or not
missing_of_All(taxas) ==
    [t \in {taxas[i] : i \in 1..Len(taxas)} |-> find_taxon(t)]

\* the missing dict filled by the same loop
missing_of(taxas) ==
    [t \in {taxas[i] : i \in {j \in 1..Len(taxas) : LinkAbsent(find_taxon(taxas[j]))}}
        |-> find_taxon(t)]

FirstExc(lins) ==
    IF \A i \in 1..Len(lins) : lins[i].exc = "" THEN ""
    ELSE lins[CHOOSE i \in 1..Len(lins) :
                /\ lins[i].exc # ""
                /\ \A j \in 1..(i - 1) : lins[j].exc = ""].exc

RECURSIVE combine(_, _)
\* "for lin in add_lineages: base_lineage += lin"
combine(base, lins) ==
    IF lins = <<>> \/ base.exc # "" THEN base
    ELSE combine(LineageAdd(base, Head(lins)), Tail(lins))

RECURSIVE remove_links(_)
\* get_lineage_combined.remove_links(lineage)
remove_links(lineage) ==
    IF lineage = <<>> THEN <<>>
    ELSE LET thing == Head(lineage)
             falsy == (thing.k = "int" /\ thing.v = 0) \/ (thing.k = "list" /\ thing.sub = <<>>)
             kept == IF falsy \/ IsStr(thing) THEN <<>>
                     ELSE IF thing.k = "list" THEN <<ListE(remove_links(thing.sub))>>
                     ELSE <<thing>>
         IN kept \o remove_links(Tail(lineage))

\* mutant: links are stripped on request only
StripWanted_OnRequest(rl, lin) == rl

\* "if kwargs.get('remove_links') or base_lineage.descendants"
StripWanted(rl, lin) == rl \/ lin.descendants

NoResult ==
    [outcome |-> "none", exc |-> "", tax_id |-> 0, ancestors |-> FALSE,
     descendants |-> FALSE, remove_links |-> FALSE, tree |-> <<>>, spliced |-> <<>>,
     f_ancestors |-> FALSE, f_descendants |-> FALSE, root |-> FALSE, partition |-> 0,
     has_missing |-> FALSE, missing |-> <<>>, queried |-> {}]

\* the combining loop, unless building add_lineages raised
combine_all(base, lins) ==
    IF FirstExc(lins) # "" THEN NoLineage(FirstExc(lins)) ELSE combine(base, lins)

\* the descendant-side branch (lines 724-749)
descendant_side(base) == combine_all(base, add_lineages(LeafLinkValues(base), 1))

\* "base_lineage += root_lineage", unless fetching root_lineage raised
add_root(base, root_lineage) ==
    IF root_lineage.exc # "" THEN root_lineage ELSE LineageAdd(base, root_lineage)

\* mutant: the root lineage is fetched without for_combine
root_lineage_Expanded(ancestor_node) ==
    IF ancestor_node = None THEN NoLineage("KeyError")
    ELSE get_lineage(0, ancestor_node, TRUE, TRUE, FALSE)

\* the root partition's lineage at the ancestor node (lines 756-758)
root_lineage_of(ancestor_node) ==
    IF ancestor_node = None THEN NoLineage("KeyError")
    ELSE get_lineage(0, ancestor_node, TRUE, TRUE, TRUE)

\* the ancestor-side branch (lines 751-759)
ancestor_side(base) ==
    add_root(base, root_lineage_of(parent_of(base.rootlink[1].key.v)))

\* mutant: the check that the owning file is open is left out
early_return_NoFileCheck(location) ==
    IF location = None THEN "TaxonNotFound" ELSE ""

\* the two early returns (lines 715-720); "" when the call goes on
early_return(location) ==
    IF location = None THEN "TaxonNotFound"
    ELSE IF location \notin files THEN "PartitionUnavailable"
    ELSE ""

\* the partitions whose node table the call has read
queried_by(location, base, afterDesc) ==
    {location}
    \cup (IF base.exc = "" /\ base.descendants
          THEN {find_taxon(t) : t \in {x \in {base.leaf[i] : i \in DOMAIN base.leaf} :
                                          LinkInstalled(find_taxon(x))}}
          ELSE {})
    \cup (IF afterDesc.exc = "" /\ afterDesc.ancestors THEN {0} ELSE {})

\* lines 761-772: strip leftover links and hand the lineage to the caller
finish(req, base, lineage, queried) ==
    IF lineage.exc # ""
    THEN [req EXCEPT !.outcome = "raised", !.exc = lineage.exc, !.queried = queried]
    ELSE [req EXCEPT
            !.outcome = "ok",
            !.spliced = lineage.tree,
            !.tree = IF StripWanted(req.remove_links, lineage)
                     THEN remove_links(lineage.tree)
                     ELSE lineage.tree,
            !.f_ancestors = lineage.ancestors,
            !.f_descendants = lineage.descendants,
            !.root = lineage.root,
            !.partition = lineage.partition,
            !.has_missing = base.descendants,
            !.missing = IF base.descendants THEN missing_of(LeafLinkValues(base))
                        ELSE <<>>,
            !.queried = queried]

\* lines 751-759, entered when the lineage holds a root link
stitch_up(req, location, base, afterDesc) ==
    finish(req, base,
           IF afterDesc.exc = "" /\ afterDesc.ancestors THEN ancestor_side(afterDesc)
           ELSE afterDesc,
           queried_by(location, base, afterDesc))

\* lines 724-749, entered when the lineage holds leaf links
stitch_down(req, location, base) ==
    stitch_up(req, location, base,
              IF base.exc = "" /\ base.descendants THEN descendant_side(base) ELSE base)

\* lines 714-722: locate the taxon, then query the owning partition
located(req, location) ==
    IF early_return(location) # ""
    THEN [req EXCEPT !.outcome = early_return(location)]
    ELSE stitch_down(req, location,
                     get_lineage(location, req.tax_id, req.ancestors, req.descendants,
                                 FALSE))

\* FamDB.get_lineage_combined(tax_id, ancestors=, descendants=, remove_links=)
get_lineage_combined(tax_id, ancestors, descendants, rl) ==
    located([NoResult EXCEPT !.tax_id = tax_id, !.ancestors = ancestors,
                             !.descendants = descendants, !.remove_links = rl],
            find_taxon(tax_id))

\* ------------------------------------------------------- text and accessions
\* A Python str that the code takes apart (accessions, names, stages, repeat
\* types) is a sequence of one-character strings; <<>> is '' and also stands
\* for an attribute that was never set (both are falsy to the code).
DigitChars == <<"0", "1", "2", "3", "4", "5", "6", "7", "8", "9">>
UpperChars ==
    <<"A", "B", "C", "D", "E", "F", "G", "H", "I", "J", "K", "L", "M",
      "N", "O", "P", "Q", "R", "S", "T", "U", "V", "W", "X", "Y", "Z">>
LowerChars ==
    <<"a", "b", "c", "d", "e", "f", "g", "h", "i", "j", "k", "l", "m",
      "n", "o", "p", "q", "r", "s", "t", "u", "v", "w", "x", "y", "z">>

IsDigit(c) == \E i \in DOMAIN DigitChars : DigitChars[i] = c

\* str.lower()
lower(s) ==
    [i \in 1..Len(s) |->
        IF \E j \in DOMAIN UpperChars : UpperChars[j] = s[i]
        THEN LowerChars[CHOOSE j \in DOMAIN UpperChars : UpperChars[j] = s[i]]
        ELSE s[i]]

\* str.startswith(prefix)
startswith(s, prefix) ==
    Len(prefix) <= Len(s) /\ SubSeq(s, 1, Len(prefix)) = prefix

RECURSIVE str_int(_)
\* str(n) of a non-negative int
str_int(n) ==
    IF n < 10 THEN <<DigitChars[n + 1]>>
    ELSE str_int(n \div 10) \o <<DigitChars[(n % 10) + 1]>>

GROUP_FAMILIES == <<"F", "a", "m", "i", "l", "i", "e", "s">>
AUX == <<"A", "u", "x">>

\* the pattern as the comment above it describes it: DF or DR and seven or
\* ten digits
dfam_match_AsComment(acc) ==
    /\ Len(acc) \in {9, 12}
    /\ acc[1] = "D"
    /\ acc[2] \in {"F", "R"}
    /\ \A i \in 3..Len(acc) : IsDigit(acc[i])

\* dfam_acc_pat.match(acc): D, F or R, three groups of two digits, then three
\* to six digits up to the end
dfam_match(acc) ==
    /\ Len(acc) \in 11..14
    /\ acc[1] = "D"
    /\ acc[2] \in {"F", "R"}
    /\ \A i \in 3..Len(acc) : IsDigit(acc[i])

\* accession_bin(acc): the group path, one element per path component
accession_bin(acc) ==
    IF dfam_match(acc)
    THEN <<GROUP_FAMILIES, SubSeq(acc, 1, 2), SubSeq(acc, 3, 4), SubSeq(acc, 5, 6),
           SubSeq(acc, 7, 8)>>
    ELSE <<GROUP_FAMILIES, AUX, lower(SubSeq(acc, 1, IF Len(acc) < 2 THEN Len(acc) ELSE 2))>>

\* ------------------------------------------------------------ family storage
EmptyMap == [x \in {} |-> 0]

\* self.file.get(f"{path}/{accession}") finds a dataset
dataset_at(p, path, accession) ==
    accession \in DOMAIN families[p] /\ accession_bin(accession) = path

\* mutant: the variants with a trailing "v" are not looked up
check_unique_NoV(p, family) ==
    /\ ~dataset_at(p, accession_bin(family.accession), family.accession)
    /\ family.accession \notin DOMAIN by_name[p]

\* mutant: every open file is searched, not only the one written to
check_unique_AnyFile(p, family) ==
    \A q \in files :
        /\ family.accession \notin DOMAIN families[q]
        /\ Append(family.accession, "v") \notin DOMAIN families[q]
        /\ family.accession \notin DOMAIN by_name[q]
        /\ Append(family.accession, "v") \notin DOMAIN by_name[q]

\* FamDBLeaf.__check_unique(family)
check_unique(p, family) ==
    LET accession == family.accession
        accession_v == Append(accession, "v")
    IN /\ ~(dataset_at(p, accession_bin(accession), accession)
            \/ dataset_at(p, accession_bin(accession_v), accession_v))
       /\ ~(accession \in DOMAIN by_name[p] \/ accession_v \in DOMAIN by_name[p])

\* "Increment counts"
count_family(p, family) ==
    [consensus |-> added[p].consensus + (IF family.consensus THEN 1 ELSE 0),
     hmm |-> added[p].hmm + (IF family.model THEN 1 ELSE 0)]

\* the attributes set on the new dataset (falsy values are not stored)
attrs_of(family) ==
    [name |-> family.name, clades |-> family.clades,
     search_stages |-> family.search_stages, buffer_stages |-> family.buffer_stages,
     consensus |-> family.consensus, model |-> family.model,
     repeat_type |-> family.repeat_type, repeat_subtype |-> family.repeat_subtype]

\* "for clade_id in family.clades": a link under every clade this file stores
clade_links(p, family) ==
    LET local == family.clades \cap DOMAIN nodes[p]
    IN [n \in DOMAIN node_families[p] \cup local |->
            (IF n \in DOMAIN node_families[p] THEN node_families[p][n] ELSE {})
            \cup (IF n \in local THEN {family.accession} ELSE {})]

\* the stage names linked: search stages, then buffer stages up to their "["
stages_linked(family) ==
    {family.search_stages[i] : i \in DOMAIN family.search_stages}
    \cup {family.buffer_stages[i] : i \in DOMAIN family.buffer_stages}

\* add_stage_link over all of them
stage_links(p, family) ==
    LET linked_stages == stages_linked(family)
    IN [s \in DOMAIN by_stage[p] \cup linked_stages |->
            (IF s \in DOMAIN by_stage[p] THEN by_stage[p][s] ELSE {})
            \cup (IF s \in linked_stages THEN {family.accession} ELSE {})]

\* mutant: the counters are incremented before the uniqueness check
add_family_CountFirst(p, family) ==
    LET counted == [outcome |-> "", families |-> families[p], by_name |-> by_name[p],
                    by_stage |-> by_stage[p], node_families |-> node_families[p],
                    added |-> count_family(p, family)]
        stored == [counted EXCEPT
                      !.families = (family.accession :> attrs_of(family)) @@ families[p]]
        named == IF family.name # <<>>
                 THEN [stored EXCEPT !.by_name = (family.name :> family.accession) @@ by_name[p]]
                 ELSE stored
    IN IF ~check_unique(p, family) THEN [counted EXCEPT !.outcome = "NotUnique"]
       ELSE IF family.name # <<>> /\ family.name \in DOMAIN by_name[p]
            THEN [stored EXCEPT !.outcome = "NameExists"]
       ELSE IF family.clades # {} /\ DOMAIN nodes[p] = {}
            THEN [named EXCEPT !.outcome = "KeyError"]
       ELSE [named EXCEPT !.outcome = "ok",
                          !.node_families = clade_links(p, family),
                          !.by_stage = stage_links(p, family)]

\* FamDBLeaf.add_family(family) on partition p: the outcome and the file after
add_family(p, family) ==
    LET untouched == [outcome |-> "", families |-> families[p], by_name |-> by_name[p],
                      by_stage |-> by_stage[p], node_families |-> node_families[p],
                      added |-> added[p]]
        stored == [untouched EXCEPT
                      !.added = count_family(p, family),
                      !.families = (family.accession :> attrs_of(family)) @@ families[p]]
        named == IF family.name # <<>>
                 THEN [stored EXCEPT !.by_name = (family.name :> family.accession) @@ by_name[p]]
                 ELSE stored
    IN IF ~check_unique(p, family) THEN [untouched EXCEPT !.outcome = "NotUnique"]
       ELSE IF family.name # <<>> /\ family.name \in DOMAIN by_name[p]
            THEN [stored EXCEPT !.outcome = "NameExists"]
       ELSE IF family.clades # {} /\ DOMAIN nodes[p] = {}
            THEN [named EXCEPT !.outcome = "KeyError"]
       ELSE [named EXCEPT !.outcome = "ok",
                          !.node_families = clade_links(p, family),
                          !.by_stage = stage_links(p, family)]

\* ------------------------------------------------- FamDB.get_accessions_filtered
RECURSIVE KeysOf(_)
\* the keys of a group as the list an iteration gives
KeysOf(S) ==
    IF S = {} THEN <<>>
    ELSE LET k == CHOOSE x \in S : TRUE IN <<k>> \o KeysOf(S \ {k})

\* the fixed list behind "stage 95"
STAGES_95 ==
    <<<<"3", "5">>, <<"5", "0">>, <<"5", "5">>, <<"6", "0">>, <<"6", "5">>,
      <<"7", "0">>, <<"7", "5">>>>

\* the stage list of assemble_filters; stage 0 stands for an omitted stage
stages_of(filter_stage) ==
    IF filter_stage = 0 \/ filter_stage = 80 THEN <<>>
    ELSE IF filter_stage = 95 THEN STAGES_95
    ELSE <<str_int(filter_stage)>>

\* FamDB.assemble_filters(**kwargs): the filters in the order they are added
assemble_filters(kwargs) ==
    LET stages == stages_of(kwargs.stage)
    IN [filters |->
            (IF kwargs.curated_only THEN <<"curated">> ELSE <<>>)
            \o (IF kwargs.uncurated_only THEN <<"uncurated">> ELSE <<>>)
            \o (IF stages # <<>> THEN <<"stages">> ELSE <<>>)
            \o (IF kwargs.is_hmm /\ stages # <<>> THEN <<"search_stages">> ELSE <<>>)
            \o (IF kwargs.repeat_type # <<>> THEN <<"repeat_type">> ELSE <<>>)
            \o (IF kwargs.name # <<>> THEN <<"name">> ELSE <<>>),
        stages |-> stages,
        repeat_type |-> lower(kwargs.repeat_type),
        name |-> lower(kwargs.name)]

\* the taxon arguments in force (lines 854-861)
taxon_args(kwargs) ==
    IF ~kwargs.given THEN [tax_id |-> 1, ancestors |-> TRUE, descendants |-> TRUE]
    ELSE [tax_id |-> kwargs.tax_id, ancestors |-> kwargs.ancestors,
          descendants |-> kwargs.descendants]

\* mutant: the Families scan is taken only when no stage list is in force
plan_of_NoStageOnly(args, af) ==
    IF args.tax_id = 1 /\ args.descendants /\ af.stages # <<>>
       /\ af.repeat_type = <<>> /\ af.name = <<>>
    THEN "by_stage"
    ELSE IF args.tax_id = 1 /\ args.descendants /\ af.stages = <<>> THEN "families"
    ELSE "tree_walk"

\* the branch iterate_accs takes (lines 884-909)
plan_of(args, af) ==
    IF args.tax_id = 1 /\ args.descendants /\ af.stages # <<>>
       /\ af.repeat_type = <<>> /\ af.name = <<>>
    THEN "by_stage"
    ELSE IF args.tax_id = 1 /\ args.descendants THEN "families"
    ELSE "tree_walk"

Raw(accs, raised) == [accs |-> accs, raised |-> raised]

RECURSIVE stage_files(_, _)
\* "for file in files" under one stage of the by-stage branch
stage_files(stage, order) ==
    IF order = <<>> THEN <<>>
    ELSE (IF stage \in DOMAIN by_stage[Head(order)]
          THEN KeysOf(by_stage[Head(order)][stage]) ELSE <<>>)
         \o stage_files(stage, Tail(order))

RECURSIVE by_stage_accs(_)
\* lines 891-897
by_stage_accs(stages) ==
    IF stages = <<>> THEN <<>>
    ELSE stage_files(Head(stages), listing) \o by_stage_accs(Tail(stages))

RECURSIVE families_accs(_, _)
\* lines 903-908: every dataset under Families, file by file; a file without
\* a Families group ends the iteration with KeyError
families_accs(order, sofar) ==
    IF order = <<>> THEN Raw(sofar, "")
    ELSE IF DOMAIN families[Head(order)] = {} THEN Raw(sofar, "KeyError")
    ELSE families_accs(Tail(order), sofar \o KeysOf(DOMAIN families[Head(order)]))

RECURSIVE walk_tree(_)
\* walk_tree(tree): the elements at every level, flattened
walk_tree(tree) ==
    IF tree = <<>> THEN <<>>
    ELSE (IF Head(tree).k = "list" THEN walk_tree(Head(tree).sub) ELSE <<Head(tree)>>)
         \o walk_tree(Tail(tree))

\* FamDB.get_families_for_taxon(tax_id, partition)
get_families_for_taxon(tax_id, partition) ==
    IF partition \in files
    THEN IF tax_id \in DOMAIN node_families[partition]
         THEN KeysOf(node_families[partition][tax_id]) ELSE <<>>
    ELSE <<>>

RECURSIVE node_accs(_, _)
\* lines 913-917: a str element has __iter__ and never stops recursing
node_accs(elems, sofar) ==
    IF elems = <<>> THEN Raw(sofar, "")
    ELSE IF IsStr(Head(elems)) THEN Raw(sofar, "RecursionError")
    ELSE node_accs(Tail(elems),
                   sofar \o get_families_for_taxon(Head(elems).v,
                                                   find_taxon(Head(elems).v)))

\* lines 910-917, given what get_lineage_combined returned
tree_walk_of(lineage) ==
    IF lineage.outcome = "raised" THEN Raw(<<>>, lineage.exc)
    ELSE IF lineage.outcome # "ok" THEN Raw(<<>>, "")
    ELSE node_accs(walk_tree(lineage.tree), <<>>)

tree_walk_accs(args) ==
    tree_walk_of(get_lineage_combined(args.tax_id, args.ancestors, args.descendants, FALSE))

\* iterate_accs() under the given branch
iterate_accs(plan, args, af) ==
    IF plan = "by_stage" THEN Raw(by_stage_accs(af.stages), "")
    ELSE IF plan = "families" THEN families_accs(listing, <<>>)
    ELSE tree_walk_accs(args)

\* filter_curated(accession, curated)
filter_curated(accession, curated) ==
    LET is_curated == ~(/\ startswith(accession, <<"D", "R">>)
                        /\ Len(accession) = 11
                        /\ \A i \in 3..Len(accession) : IsDigit(accession[i]))
    IN is_curated = curated

\* FamDBLeaf.get_family_by_accession(accession) finds a family
has_family(p, accession) == dataset_at(p, accession_bin(accession), accession)

\* the files holding the accession, in dict order
RECURSIVE holders_of(_, _)
holders_of(order, accession) ==
    IF order = <<>> THEN <<>>
    ELSE (IF has_family(Head(order), accession) THEN <<Head(order)>> ELSE <<>>)
         \o holders_of(Tail(order), accession)

\* FamDBLeaf.filter_stages(accession, stages)
leaf_filter_stages(p, accession, stages) ==
    IF DOMAIN by_stage[p] = {} THEN "KeyError"
    ELSE IF \E i \in DOMAIN stages :
                stages[i] \in DOMAIN by_stage[p] /\ accession \in by_stage[p][stages[i]]
         THEN "T" ELSE "F"

\* FamDB.filter_stages(accession, stages): the first file holding the family
\* answers; None (falsy) when no file holds it
filter_stages(accession, stages) ==
    LET holders == holders_of(listing, accession)
    IN IF holders = <<>> THEN "F"
       ELSE leaf_filter_stages(Head(holders), accession, stages)

\* family_getter(): the copy in the last file that holds the accession
family_getter(accession) ==
    LET holders == holders_of(listing, accession)
    IN IF holders = <<>> THEN [found |-> FALSE, attrs |-> EmptyMap]
       ELSE [found |-> TRUE, attrs |-> families[holders[Len(holders)]][accession]]

\* filter_search_stages(family, stages)
filter_search_stages(family, stages) ==
    \E i \in DOMAIN family.search_stages :
        \E j \in DOMAIN stages : family.search_stages[i] = stages[j]

\* filter_repeat_type(family, rtype)
filter_repeat_type(family, rtype) ==
    /\ family.repeat_type # <<>>
    /\ startswith(lower(IF family.repeat_subtype # <<>>
                        THEN family.repeat_type \o <<"/">> \o family.repeat_subtype
                        ELSE family.repeat_type),
                  rtype)

\* filter_name(family, name)
filter_name(family, name) ==
    family.name # <<>> /\ startswith(lower(family.name), name)

\* one "filt(accession, family_getter)": "T", "F" or the exception raised
run_filter(filt, accession, af) ==
    IF filt = "curated" THEN (IF filter_curated(accession, TRUE) THEN "T" ELSE "F")
    ELSE IF filt = "uncurated" THEN (IF filter_curated(accession, FALSE) THEN "T" ELSE "F")
    ELSE IF filt = "stages" THEN filter_stages(accession, af.stages)
    ELSE IF ~family_getter(accession).found THEN "AttributeError"
    ELSE IF filt = "search_stages"
         THEN (IF filter_search_stages(family_getter(accession).attrs, af.stages)
               THEN "T" ELSE "F")
    ELSE IF filt = "repeat_type"
         THEN (IF filter_repeat_type(family_getter(accession).attrs, af.repeat_type)
               THEN "T" ELSE "F")
    ELSE (IF filter_name(family_getter(accession).attrs, af.name) THEN "T" ELSE "F")

RECURSIVE match_of(_, _, _, _)
\* "for filt in filters": every filter runs, a mismatch does not stop the loop
match_of(accession, af, i, match) ==
    IF i > Len(af.filters) THEN match
    ELSE LET r == run_filter(af.filters[i], accession, af)
         IN IF r \notin {"T", "F"} THEN r
            ELSE match_of(accession, af, i + 1, IF r = "F" THEN "F" ELSE match)

\* mutant: the seen set is never consulted
unseen_Always(accession, seen) == TRUE

\* "if accession in seen: continue"
unseen(accession, seen) == accession \notin seen

RECURSIVE yield_loop(_, _, _, _, _)
\* lines 919-942 over the accessions iterate_accs gives, from index i on
yield_loop(raw, af, i, seen, out) ==
    IF i > Len(raw.accs) THEN [out |-> out, raised |-> raw.raised]
    ELSE IF ~unseen(raw.accs[i], seen) THEN yield_loop(raw, af, i + 1, seen, out)
    ELSE LET m == match_of(raw.accs[i], af, 1, "T")
         IN IF m \notin {"T", "F"} THEN [out |-> out, raised |-> m]
            ELSE yield_loop(raw, af, i + 1, seen \cup {raw.accs[i]},
                            IF m = "T" THEN Append(out, raw.accs[i]) ELSE out)

NoKwargs ==
    [given |-> FALSE, tax_id |-> 0, ancestors |-> FALSE, descendants |-> FALSE,
     curated_only |-> FALSE, uncurated_only |-> FALSE, stage |-> 0, is_hmm |-> FALSE,
     repeat_type |-> <<>>, name |-> <<>>]

NoAccs ==
    [outcome |-> "none", kwargs |-> NoKwargs, plan |-> "", stages |-> <<>>,
     iterated |-> <<>>, out |-> <<>>, raised |-> ""]

\* what the caller draining the generator sees
drained(kwargs, af, plan, raw, loop) ==
    [outcome |-> IF loop.raised = "" THEN "ok" ELSE "raised",
     kwargs |-> kwargs, plan |-> plan, stages |-> af.stages,
     iterated |-> raw.accs, out |-> loop.out, raised |-> loop.raised]

filtered(kwargs, af, plan, raw) ==
    drained(kwargs, af, plan, raw, yield_loop(raw, af, 1, {}, <<>>))

planned(kwargs, af, plan) ==
    filtered(kwargs, af, plan, iterate_accs(plan, taxon_args(kwargs), af))

assembled(kwargs, af) == planned(kwargs, af, plan_of(taxon_args(kwargs), af))

\* FamDB.get_accessions_filtered(**kwargs), drained by the caller
get_accessions_filtered(kwargs) == assembled(kwargs, assemble_filters(kwargs))

\* ------------------------------------------------------------ state machine
NoAdd ==
    [outcome |-> "none", exc |-> "", self_root |-> FALSE, other_root |-> FALSE,
     self_partition |-> 0, other_partition |-> 0, root |-> FALSE, partition |-> 0,
     tree |-> <<>>]

NoFamily ==
    [accession |-> <<>>, name |-> <<>>, clades |-> {}, search_stages |-> <<>>,
     buffer_stages |-> <<>>, consensus |-> FALSE, model |-> FALSE,
     repeat_type |-> <<>>, repeat_subtype |-> <<>>]

NoFam ==
    [outcome |-> "none", partition |-> 0, family |-> NoFamily,
     before |-> [consensus |-> 0, hmm |-> 0]]

\* files just created: no family, no index entry, counters at zero
NoFamilies ==
    /\ families = [p \in Parts |-> EmptyMap]
    /\ by_name = [p \in Parts |-> EmptyMap]
    /\ by_stage = [p \in Parts |-> EmptyMap]
    /\ node_families = [p \in Parts |-> EmptyMap]
    /\ added = [p \in Parts |-> [consensus |-> 0, hmm |-> 0]]
    /\ famres = NoFam
    /\ accres = NoAccs

\* no call of a constructor or of a metadata method has returned yet
NotOpened ==
    [call |-> "none", mode |-> "", name |-> <<>>, outcome |-> "none",
     files |-> EmptyMap, before |-> EmptyMap]
\* the dict of get_db_info; all fields "" stands for the None it returns
\* for a file without db_name
NoDbInfo == [name |-> "", version |-> "", date |-> "", description |-> "", copyright |-> ""]
NoMeta == [call |-> "none", outcome |-> "none", counts |-> [consensus |-> 0, hmm |-> 0, file |-> 0],
           info |-> NoDbInfo]

\* no name search, helper or utility call has returned yet
NoCall == [call |-> "none"]

\* FamDBRoot.__init__: self.__lineage_cache = {} in each of the two instances
NoCache == [db \in 1..2 |-> EmptyMap]

\* the attributes of a file that finalize and set_db_info have not written;
\* None and "" stand for an attribute the file does not have
NoAttrs ==
    [count_consensus |-> None, count_hmm |-> None, db_name |-> "", db_version |-> "",
     db_date |-> "", db_description |-> "", db_copyright |-> ""]

\* a builder that has written nothing
NoTally ==
    [counts |-> [p \in Parts |-> [consensus |-> 0, hmm |-> 0]],
     accessions |-> {}, info |-> NoDbInfo, finalized |-> FALSE, complete |-> FALSE]

\* the files were just created in write mode from outside any directory scan
NothingOpened ==
    /\ directory = EmptyMap
    /\ openres = NotOpened
    /\ attrs = [p \in Parts |-> NoAttrs]
    /\ open_mode = "w"
    /\ tally = NoTally
    /\ metares = NoMeta
    /\ callres = NoCall
    /\ lineage_cache = NoCache

\* taxonomies over Taxa, rooted at 1, ids given parent before child
TaxDbs ==
    {db \in [Taxa -> 0..MaxTaxon] :
        /\ db[1] = 0
        /\ \A n \in Taxa \ {1} : db[n] \in 1..(n - 1)}

\* partition 0 holds taxon 1 and is closed under parents; a node below a
\* non-root node lives in that node's partition
Partitionings(db) ==
    {part \in [Taxa -> Parts] :
        /\ part[1] = 0
        /\ \A n \in Taxa \ {1} : part[db[n]] # 0 => part[n] = part[db[n]]}

Init ==
    \E db \in TaxDbs :
      \E part \in Partitionings(db) :
        \E open \in SUBSET (1..MaxPart) :
            /\ tax_db = db
            /\ nodes = [p \in Parts |-> write_taxonomy(db, {n \in Taxa : part[n] = p})]
            /\ names_dump = write_taxa_names(db, part)
            /\ files = {0} \cup open
            /\ listing = SortedSeq({0} \cup open)
            /\ pc = "idle"
            /\ result = NoResult
            /\ addres = NoAdd
            /\ NoFamilies
            /\ NothingOpened

\* a caller asks for a combined lineage
GetLineageCombined ==
    /\ pc = "idle"
    /\ \E tax_id \in QueryIds :
         \E ancestors \in BOOLEAN, descendants \in BOOLEAN, rl \in BOOLEAN :
            result' = get_lineage_combined(tax_id, ancestors, descendants, rl)
    /\ pc' = "returned"
    /\ UNCHANGED <<io_vars, meta_vars, call_vars, tax_vars, fam_vars, addres, famres, accres>>

\* the Lineage values the open partitions hand out
LocalLineages ==
    {l \in {get_lineage(p, t, a, TRUE, fc) :
                p \in files, t \in Taxa, a \in BOOLEAN, fc \in BOOLEAN} : l.exc = ""}
    \cup {MissingLineage(t, find_taxon(t)) :
                t \in {x \in Taxa : LinkAbsent(find_taxon(x))}}

\* what the caller of self + other sees
AddOutcome(self, other, sum) ==
    [outcome |-> IF sum.exc = "" THEN "ok" ELSE "raised",
     exc |-> sum.exc,
     self_root |-> self.root, other_root |-> other.root,
     self_partition |-> self.partition, other_partition |-> other.partition,
     root |-> sum.root, partition |-> sum.partition, tree |-> sum.tree]

\* a caller splices two Lineage values: self + other
AddLineages ==
    /\ pc = "idle"
    /\ \E self \in LocalLineages, other \in LocalLineages :
         addres' = AddOutcome(self, other, LineageAdd(self, other))
    /\ pc' = "returned"
    /\ UNCHANGED <<io_vars, meta_vars, call_vars, tax_vars, fam_vars, result, famres, accres>>

\* the caller is done with the query-scoped value
Return ==
    /\ pc = "returned"
    /\ pc' = "idle"
    /\ result' = NoResult
    /\ addres' = NoAdd
    /\ famres' = NoFam
    /\ accres' = NoAccs
    /\ openres' = NotOpened
    /\ metares' = NoMeta
    /\ callres' = NoCall
    /\ UNCHANGED <<lineage_cache, tax_vars, fam_vars, directory, attrs, open_mode, tally>>

Next == GetLineageCombined \/ AddLineages \/ Return

Spec == Init /\ [][Next]_vars

\* ------------------------------------------- state machine of the family store
\* accessions, names and stages the callers use
DF1 == <<"D", "F", "0", "0", "0", "0", "0", "0", "0", "0", "1">>
DR1 == <<"D", "R", "0", "0", "0", "0", "0", "0", "0", "0", "1">>
S35 == <<"3", "5">>
S50 == <<"5", "0">>
ALU == <<"A", "l", "u">>
SINE == <<"S", "I", "N", "E">>

\* the clade lists a family is exported with: none, or the chain 1 - 2 - 3
CladeChoices == {{}, {1, 2, 3}}

\* search_stages / buffer_stages after split(",") and strip()
StageChoices ==
    {[search |-> <<>>, buffer |-> <<>>],
     [search |-> <<S35>>, buffer |-> <<S50>>]}

\* the Family objects handed to add_family: one curated named family with a
\* model, one uncurated family without
FamilyInputs ==
    {[accession |-> a,
      name |-> IF a = DF1 THEN ALU ELSE <<>>,
      clades |-> c,
      search_stages |-> st.search,
      buffer_stages |-> st.buffer,
      consensus |-> TRUE,
      model |-> a = DF1,
      repeat_type |-> IF a = DF1 THEN SINE ELSE <<>>,
      repeat_subtype |-> <<>>] :
        a \in {DF1, DR1}, c \in CladeChoices, st \in StageChoices}

\* the keyword arguments of the queries; given = FALSE is a call with none of
\* tax_id, ancestors and descendants
Requests ==
    {kw \in [given : BOOLEAN, tax_id : {1, 3}, ancestors : BOOLEAN,
             descendants : BOOLEAN, curated_only : {FALSE}, uncurated_only : {FALSE},
             stage : {0, 35, 80, 95}, is_hmm : {FALSE},
             repeat_type : {<<>>, SINE}, name : {<<>>, <<"A", "l">>}] :
        ~kw.given => (kw.tax_id = 1 /\ kw.ancestors /\ kw.descendants)}

\* the taxonomy of the family store: 1 - 2 in the root partition, 3 below 2
\* in partition 1, every other taxon below 1 in partition 2
ScenarioDb == [n \in Taxa |-> IF n = 1 THEN 0 ELSE IF n <= 3 THEN n - 1 ELSE 1]
ScenarioPart == [n \in Taxa |-> IF n <= 2 THEN 0 ELSE IF n = 3 THEN 1 ELSE 2]

\* partitions 0 and 1 are installed and empty of families; os.listdir gives
\* the two files in either order
InitFam ==
    /\ tax_db = ScenarioDb
    /\ nodes = [p \in Parts |-> write_taxonomy(ScenarioDb, {n \in Taxa : ScenarioPart[n] = p})]
    /\ names_dump = write_taxa_names(ScenarioDb, ScenarioPart)
    /\ files = {0, 1}
    /\ listing \in {<<0, 1>>, <<1, 0>>}
    /\ pc = "idle"
    /\ result = NoResult
    /\ addres = NoAdd
    /\ NoFamilies
    /\ NothingOpened

\* add_family(family) on the file of partition p, as the builder sees it
Stored(p, family) ==
    LET r == add_family(p, family)
    IN /\ families' = [families EXCEPT ![p] = r.families]
       /\ by_name' = [by_name EXCEPT ![p] = r.by_name]
       /\ by_stage' = [by_stage EXCEPT ![p] = r.by_stage]
       /\ node_families' = [node_families EXCEPT ![p] = r.node_families]
       /\ added' = [added EXCEPT ![p] = r.added]
       /\ famres' = [outcome |-> r.outcome, partition |-> p, family |-> family,
                     before |-> added[p]]

\* a builder adds one family to one open partition file
AddFamily ==
    /\ pc = "idle"
    /\ \E p \in files, family \in FamilyInputs : Stored(p, family)
    /\ pc' = "returned"
    /\ UNCHANGED <<io_vars, meta_vars, call_vars, tax_vars, result, addres, accres>>

\* a caller drains one filtered accession query
GetAccessionsFiltered ==
    /\ pc = "idle"
    /\ \E kwargs \in Requests : accres' = get_accessions_filtered(kwargs)
    /\ pc' = "returned"
    /\ UNCHANGED <<io_vars, meta_vars, call_vars, tax_vars, fam_vars, result, addres, famres>>

NextFam == AddFamily \/ GetAccessionsFiltered \/ Return

SpecFam == InitFam /\ [][NextFam]_vars



\* --------------------------------------------- state machine of the filter chain
LINE == <<"L", "I", "N", "E">>

\* one curated family in stages 35 (search) and 50 (buffer) with a name, a
\* type and a subtype, one uncurated family with none of these; every copy of
\* an accession carries the same attributes
FilterFamilies ==
    {[accession |-> DF1, name |-> ALU, clades |-> {1, 2, 3},
      search_stages |-> <<S35>>, buffer_stages |-> <<S50>>,
      consensus |-> TRUE, model |-> TRUE,
      repeat_type |-> SINE, repeat_subtype |-> ALU],
     [accession |-> DR1, name |-> <<>>, clades |-> {1, 2, 3},
      search_stages |-> <<>>, buffer_stages |-> <<>>,
      consensus |-> TRUE, model |-> FALSE,
      repeat_type |-> <<>>, repeat_subtype |-> <<>>]}

\* requests that exercise every filter, alone and combined
FilterRequests ==
    [given : {TRUE}, tax_id : {1, 3}, ancestors : {TRUE}, descendants : BOOLEAN,
     curated_only : BOOLEAN, uncurated_only : BOOLEAN,
     stage : {0, 35, 50, 95}, is_hmm : BOOLEAN,
     repeat_type : {<<>>, <<"S", "I", "N", "E", "/", "A">>, LINE},
     name : {<<>>, <<"a", "l">>}]

\* a builder exports one of the two families to one open partition file
AddFilterFamily ==
    /\ pc = "idle"
    /\ \E p \in files, family \in FilterFamilies : Stored(p, family)
    /\ pc' = "returned"
    /\ UNCHANGED <<io_vars, meta_vars, call_vars, tax_vars, result, addres, accres>>

\* a caller drains one query of the filter requests
FilterAccessions ==
    /\ pc = "idle"
    /\ \E kwargs \in FilterRequests : accres' = get_accessions_filtered(kwargs)
    /\ pc' = "returned"
    /\ UNCHANGED <<io_vars, meta_vars, call_vars, tax_vars, fam_vars, result, addres, famres>>

NextFilter == AddFilterFamily \/ FilterAccessions \/ Return

SpecFilter == InitFam /\ [][NextFilter]_vars


\* ------------------------------------------- state machine of the uniqueness check
DF1V == Append(DF1, "v")

\* families whose accessions and names collide: an accession, the same
\* accession with a trailing "v", a third accession; no name, a name equal to
\* the "v" accession, an ordinary name
UniqueFamilies ==
    {[accession |-> a, name |-> n, clades |-> {},
      search_stages |-> IF n = ALU THEN <<S35>> ELSE <<>>,
      buffer_stages |-> <<>>,
      consensus |-> TRUE, model |-> n # <<>>,
      repeat_type |-> <<>>, repeat_subtype |-> <<>>] :
        a \in {DF1, DF1V, DR1}, n \in {<<>>, DF1V, ALU}}

\* a builder appends one of these families to one open partition file
AddUniqueFamily ==
    /\ pc = "idle"
    /\ \E p \in files, family \in UniqueFamilies : Stored(p, family)
    /\ pc' = "returned"
    /\ UNCHANGED <<io_vars, meta_vars, call_vars, tax_vars, result, addres, accres>>

NextUnique == AddUniqueFamily \/ Return

SpecUnique == InitFam /\ [][NextUnique]_vars


\* ------------------------------------------------ opening files and directories
\* The current version of the file format
FILE_VERSION == <<"1", ".", "0">>

\* str.endswith
endswith(s, suffix) ==
    Len(s) >= Len(suffix) /\ SubSeq(s, Len(s) - Len(suffix) + 1, Len(s)) = suffix

\* "sub in s" on strings
contains(sub, s) ==
    \E i \in 1..(Len(s) - Len(sub) + 1) : SubSeq(s, i, i + Len(sub) - 1) = sub

RECURSIVE split(_, _)
\* s.split(sep) for a one-character separator
split(s, sep) ==
    IF \A i \in DOMAIN s : s[i] # sep THEN <<s>>
    ELSE LET i == CHOOSE k \in DOMAIN s : s[k] = sep /\ \A j \in 1..(k - 1) : s[j] # sep
         IN <<SubSeq(s, 1, i - 1)>> \o split(SubSeq(s, i + 1, Len(s)), sep)

RECURSIVE digits_value(_)
\* the number a string of decimal digits writes
digits_value(s) ==
    IF s = <<>> THEN 0
    ELSE 10 * digits_value(SubSeq(s, 1, Len(s) - 1))
         + (CHOOSE d \in 0..9 : DigitChars[d + 1] = s[Len(s)])

\* int(s): None stands for the ValueError of a string that is no number
int(s) ==
    IF s # <<>> /\ \A i \in DOMAIN s : IsDigit(s[i]) THEN digits_value(s) ELSE None

\* the meta block of file_info; NoInfo stands for a file without the attribute
NoInfo == [partition_id |-> "none", db_version |-> "none", db_date |-> "none"]
Generation == [partition_id |-> "uuid-a", db_version |-> "3.8", db_date |-> "2023-11-15"]
Generations ==
    {Generation,
     [Generation EXCEPT !.partition_id = "uuid-b"],
     [Generation EXCEPT !.db_version = "3.9"],
     [Generation EXCEPT !.db_date = "2024-01-01"]}

\* what h5py.File(filename, "w") leaves and __write_metadata then sets
Truncated == [version |-> FILE_VERSION, file_info |-> NoInfo, finalized |-> FALSE]

\* mutant: the version is compared in mode "r" only
leaf_init_ReadOnly(file, mode) ==
    IF mode \notin {"r", "r+", "w"} THEN [outcome |-> "ValueError", file |-> file]
    ELSE IF mode = "r" /\ file.version # FILE_VERSION
         THEN [outcome |-> "CannotRead", file |-> file]
    ELSE IF mode = "w" THEN [outcome |-> "ok", file |-> Truncated]
    ELSE IF mode = "r+" /\ ~file.finalized THEN [outcome |-> "KeyError", file |-> file]
    ELSE [outcome |-> "ok", file |-> file]

\* FamDBLeaf.__init__(filename, mode) on the stored file: the outcome and the
\* file after; a version of <<>> is a file without the attribute, finalized
\* tells whether the file has the two count attributes get_counts reads
leaf_init(file, mode) ==
    IF mode \notin {"r", "r+", "w"} THEN [outcome |-> "ValueError", file |-> file]
    ELSE IF mode # "w" /\ file.version # FILE_VERSION
         THEN [outcome |-> "CannotRead", file |-> file]
    ELSE IF mode = "w" THEN [outcome |-> "ok", file |-> Truncated]
    ELSE IF mode = "r+" /\ ~file.finalized THEN [outcome |-> "KeyError", file |-> file]
    ELSE [outcome |-> "ok", file |-> file]

\* FamDBRoot.__init__(filename, mode): reading also loads the TaxaNames and
\* file_info, which a file that was never exported does not have
root_init(file, mode) ==
    LET leaf == leaf_init(file, mode)
    IN IF leaf.outcome = "ok" /\ mode \in {"r", "r+"} /\ file.file_info = NoInfo
       THEN [leaf EXCEPT !.outcome = "KeyError"]
       ELSE leaf

\* h5_files of FamDB.__init__: the listed names that end with ".h5"
h5_files_of(listed) == SelectSeq(listed, LAMBDA file : endswith(file, <<".", "h", "5">>))

\* db_prefixes of FamDB.__init__: file[:-5] of the names that end with ".0.h5"
db_prefixes_of(listed) ==
    {SubSeq(listed[i], 1, Len(listed[i]) - 5) :
        i \in {k \in DOMAIN listed : endswith(listed[k], <<".", "0", ".", "h", "5">>)}}

\* idx = int(fields[-2]) of a file name
idx_of(file) ==
    LET fields == split(file, ".") IN int(fields[Len(fields) - 1])

RECURSIVE tabulate(_, _, _, _, _, _)
\* "Tabulate all partitions for db_prefix": the loop over h5_files from
\* position i, with self.files and the directory so far
tabulate(h5_files, i, db_prefix, mode, opened_files, dir) ==
    IF i > Len(h5_files) THEN [outcome |-> "ok", files |-> opened_files, dir |-> dir]
    ELSE LET file == h5_files[i]
         IN IF ~contains(db_prefix, file)
            THEN tabulate(h5_files, i + 1, db_prefix, mode, opened_files, dir)
            ELSE IF idx_of(file) = None
                 THEN [outcome |-> "ValueError", files |-> opened_files, dir |-> dir]
            ELSE LET leaf == IF idx_of(file) = 0 THEN root_init(dir[file], mode)
                                                      ELSE leaf_init(dir[file], mode)
                 IN IF leaf.outcome # "ok"
                    THEN [outcome |-> leaf.outcome, files |-> opened_files, dir |-> dir]
                    ELSE tabulate(h5_files, i + 1, db_prefix, mode,
                                  (idx_of(file) :> file) @@ opened_files,
                                  [dir EXCEPT ![file] = leaf.file])

\* mutant: only the uuid is compared
err_files_of_UuidOnly(opened_files, dir) ==
    {idx \in DOMAIN opened_files :
        dir[opened_files[0]].file_info.partition_id
            # dir[opened_files[idx]].file_info.partition_id}

\* the files whose generation identifiers differ from those of self.files[0]
err_files_of(opened_files, dir) ==
    LET root == dir[opened_files[0]].file_info
    IN {idx \in DOMAIN opened_files :
            LET meta == dir[opened_files[idx]].file_info
            IN \/ root.partition_id # meta.partition_id
               \/ root.db_version # meta.db_version
               \/ root.db_date # meta.db_date}

\* FamDB.__init__(db_dir, mode) with os.listdir(db_dir) giving listed: the
\* outcome, self.files as partition number -> file name, the directory after
famdb_init(dir, listed, mode) ==
    LET db_prefixes == db_prefixes_of(listed)
        failed(outcome) == [outcome |-> outcome, files |-> EmptyMap, dir |-> dir]
    IN IF db_prefixes = {} THEN failed("NoRoot")
       ELSE IF Cardinality(db_prefixes) > 1 THEN failed("MultipleRoots")
       ELSE LET db_prefix == CHOOSE prefix \in db_prefixes : TRUE
                t == tabulate(h5_files_of(listed), 1, db_prefix, mode, EmptyMap, dir)
            IN IF t.outcome # "ok" THEN [t EXCEPT !.files = EmptyMap]
               ELSE IF \E idx \in DOMAIN t.files : t.dir[t.files[idx]].file_info = NoInfo
                    THEN [t EXCEPT !.outcome = "KeyError", !.files = EmptyMap]
               ELSE IF err_files_of(t.files, t.dir) # {}
                    THEN [t EXCEPT !.outcome = "DifferentRuns", !.files = EmptyMap]
               ELSE t

\* ------------------------------------------------ state machine of the opening
\* the file names met in an export directory: the root and partition 1 of one
\* export, a backup copy of partition 1, a stray file, the root of another export
ROOT_FILE == <<"d", ".", "0", ".", "h", "5">>
LEAF_FILE == <<"d", ".", "1", ".", "h", "5">>
COPY_FILE == <<"d", ".", "b", ".", "1", ".", "h", "5">>
STRAY_FILE == <<"d", ".", "x", ".", "h", "5">>
OTHER_ROOT == <<"e", ".", "0", ".", "h", "5">>
FileNames == {ROOT_FILE, LEAF_FILE, COPY_FILE, STRAY_FILE, OTHER_ROOT}

\* a file as exported, and the ways a file can differ from it: written by
\* another format version, without a version, by another partitioning run,
\* or closed before finalize
Exported == [version |-> FILE_VERSION, file_info |-> Generation, finalized |-> TRUE]
StoredFiles ==
    {[Exported EXCEPT !.version = v] : v \in {FILE_VERSION, <<"0", ".", "5">>, <<>>}}
    \cup {[Exported EXCEPT !.file_info = g] : g \in Generations}
    \cup {[Exported EXCEPT !.finalized = FALSE]}

\* what each name can hold
FilesNamed(name) ==
    IF name \in {ROOT_FILE, LEAF_FILE} THEN StoredFiles \cup {Truncated}
    ELSE IF name = COPY_FILE THEN {Exported, [Exported EXCEPT !.file_info.partition_id = "uuid-b"]}
    ELSE {Exported}

\* the directories: any of the names, each with one of its contents
Directories ==
    UNION {{dir \in [present -> StoredFiles \cup {Truncated}] : \A name \in present : dir[name] \in FilesNamed(name)} :
              present \in SUBSET FileNames}

\* os.listdir: the names in arbitrary order
Listings(present) ==
    {listed \in [1..Cardinality(present) -> present] :
        \A i, j \in DOMAIN listed : i # j => listed[i] # listed[j]}

InitOpen ==
    /\ tax_db = ScenarioDb
    /\ nodes = [p \in Parts |-> write_taxonomy(ScenarioDb, {n \in Taxa : ScenarioPart[n] = p})]
    /\ names_dump = write_taxa_names(ScenarioDb, ScenarioPart)
    /\ files = {}
    /\ listing = <<>>
    /\ pc = "idle"
    /\ result = NoResult
    /\ addres = NoAdd
    /\ NoFamilies
    /\ directory \in Directories
    /\ openres = NotOpened
    /\ attrs = [p \in Parts |-> NoAttrs]
    /\ open_mode = ""
    /\ tally = NoTally
    /\ metares = NoMeta
    /\ callres = NoCall
    /\ lineage_cache = NoCache

\* FamDB(db_dir, mode)
OpenDatabase ==
    /\ pc = "idle"
    /\ \E m \in {"r", "r+", "w"}, listed \in Listings(DOMAIN directory) :
          LET r == famdb_init(directory, listed, m)
          IN /\ openres' = [call |-> "FamDB", mode |-> m, name |-> <<>>,
                            outcome |-> r.outcome, files |-> r.files, before |-> directory]
             /\ directory' = r.dir
    /\ pc' = "returned"
    /\ UNCHANGED <<meta_vars, call_vars, tax_vars, fam_vars, result, addres, famres, accres>>

\* FamDBLeaf(filename, mode) on a file of the directory
OpenPartition ==
    /\ pc = "idle"
    /\ \E m \in {"r", "r+", "w", "a"}, name \in DOMAIN directory :
          LET r == leaf_init(directory[name], m)
          IN /\ openres' = [call |-> "FamDBLeaf", mode |-> m, name |-> name,
                            outcome |-> r.outcome, files |-> EmptyMap, before |-> directory]
             /\ directory' = [directory EXCEPT ![name] = r.file]
    /\ pc' = "returned"
    /\ UNCHANGED <<meta_vars, call_vars, tax_vars, fam_vars, result, addres, famres, accres>>

NextOpen == OpenDatabase \/ OpenPartition \/ Return

SpecOpen == InitOpen /\ [][NextOpen]_vars


\* ------------------------------------------- metadata methods and the round trip
\* FamDBLeaf.set_db_info(name, version, date, desc, copyright_text) on a file
set_db_info(file_attrs, info) ==
    [file_attrs EXCEPT !.db_name = info.name, !.db_version = info.version,
                       !.db_date = info.date, !.db_description = info.description,
                       !.db_copyright = info.copyright]

\* FamDBLeaf.finalize() on partition p
finalize(p) ==
    [attrs[p] EXCEPT !.count_consensus = added[p].consensus, !.count_hmm = added[p].hmm]

\* FamDBLeaf.get_db_info() on a file
get_db_info(file_attrs) ==
    IF file_attrs.db_name = "" THEN NoDbInfo
    ELSE [name |-> file_attrs.db_name, version |-> file_attrs.db_version,
          date |-> file_attrs.db_date, description |-> file_attrs.db_description,
          copyright |-> file_attrs.db_copyright]

\* self.file.attrs["count_consensus"] is there to read
has_counts(file_attrs) == file_attrs.count_consensus # None /\ file_attrs.count_hmm # None

RECURSIVE count_files(_, _)
\* the loop of FamDB.get_counts from the i-th open file on
count_files(i, counts) ==
    IF i > Len(listing) THEN [outcome |-> "ok", counts |-> counts]
    ELSE IF ~has_counts(attrs[listing[i]])
         THEN [outcome |-> "KeyError", counts |-> NoMeta.counts]
    ELSE count_files(i + 1,
            [consensus |-> counts.consensus + attrs[listing[i]].count_consensus,
             hmm |-> counts.hmm + attrs[listing[i]].count_hmm,
             file |-> counts.file + 1])

\* the file of partition p as FamDBLeaf.__init__ finds it when it is reopened
file_on_disk(p) ==
    [version |-> FILE_VERSION, file_info |-> Generation, finalized |-> has_counts(attrs[p])]

\* the outcome of reopening every file in the given mode
reopen(m) ==
    IF \A p \in files : leaf_init(file_on_disk(p), m).outcome = "ok" THEN "ok"
    ELSE LET p == CHOOSE q \in files : leaf_init(file_on_disk(q), m).outcome # "ok"
         IN leaf_init(file_on_disk(p), m).outcome

\* ------------------------------------------------ state machine of the round trip
\* the families the builder exports: two of them named Alu
RoundFamilies ==
    {[NoFamily EXCEPT !.accession = DF1, !.name = ALU, !.consensus = TRUE, !.model = TRUE],
     [NoFamily EXCEPT !.accession = DR1, !.name = ALU, !.consensus = TRUE],
     [NoFamily EXCEPT !.accession = DR1, !.consensus = TRUE]}

\* the arguments of set_db_info
DbInfos ==
    {[name |-> "Dfam", version |-> v, date |-> "2023-11-15", description |-> "families",
      copyright |-> "CC0"] : v \in {"3.8", "3.9"}}

\* get_accessions_filtered(tax_id=1, descendants=True)
WholeRequest == [NoKwargs EXCEPT !.given = TRUE, !.tax_id = 1, !.descendants = TRUE]

\* the builder has created partitions 0 and 1 in write mode
InitRound ==
    /\ tax_db = ScenarioDb
    /\ nodes = [p \in Parts |-> write_taxonomy(ScenarioDb, {n \in Taxa : ScenarioPart[n] = p})]
    /\ names_dump = write_taxa_names(ScenarioDb, ScenarioPart)
    /\ files = {0, 1}
    /\ listing = <<0, 1>>
    /\ pc = "idle"
    /\ result = NoResult
    /\ addres = NoAdd
    /\ NoFamilies
    /\ NothingOpened

\* the builder adds a family to a partition and keeps its own tally
AddRoundFamily ==
    /\ pc = "idle"
    /\ open_mode \in {"w", "r+"}
    /\ \E p \in files, family \in RoundFamilies :
          /\ Stored(p, family)
          /\ tally' = IF famres'.outcome = "ok"
                      THEN [tally EXCEPT !.counts[p] =
                                            [consensus |-> @.consensus
                                                 + (IF family.consensus THEN 1 ELSE 0),
                                             hmm |-> @.hmm + (IF family.model THEN 1 ELSE 0)],
                                         !.accessions = @ \cup {family.accession},
                                         !.finalized = FALSE]
                      ELSE [tally EXCEPT !.finalized = FALSE]
    /\ pc' = "returned"
    /\ UNCHANGED <<io_vars, attrs, open_mode, metares, call_vars, tax_vars, result, addres, accres>>

\* FamDB.set_db_info: every open file gets the five attributes
SetDbInfo ==
    /\ pc = "idle"
    /\ open_mode \in {"w", "r+"}
    /\ \E info \in DbInfos :
          /\ attrs' = [p \in Parts |-> IF p \in files THEN set_db_info(attrs[p], info)
                                                      ELSE attrs[p]]
          /\ tally' = [tally EXCEPT !.info = info]
          /\ metares' = [NoMeta EXCEPT !.call = "set_db_info", !.outcome = "ok"]
    /\ pc' = "returned"
    /\ UNCHANGED <<io_vars, open_mode, call_vars, tax_vars, fam_vars, result, addres, famres, accres>>

\* FamDB.finalize: every open file gets its counters
Finalize ==
    /\ pc = "idle"
    /\ open_mode \in {"w", "r+"}
    /\ attrs' = [p \in Parts |-> IF p \in files THEN finalize(p) ELSE attrs[p]]
    /\ tally' = [tally EXCEPT !.finalized = TRUE]
    /\ metares' = [NoMeta EXCEPT !.call = "finalize", !.outcome = "ok"]
    /\ pc' = "returned"
    /\ UNCHANGED <<io_vars, open_mode, call_vars, tax_vars, fam_vars, result, addres, famres, accres>>

\* the files are closed and opened again in mode m; in append mode each
\* partition starts from the counts stored in its file
Reopen ==
    /\ pc = "idle"
    /\ \E m \in {"r", "r+"} :
          LET outcome == reopen(m)
              stored == [p \in Parts |->
                            IF p \in files
                            THEN [consensus |-> attrs[p].count_consensus,
                                  hmm |-> attrs[p].count_hmm]
                            ELSE added[p]]
          IN /\ open_mode' = IF outcome = "ok" THEN m ELSE "closed"
             /\ added' = IF outcome = "ok" /\ m = "r+" THEN stored ELSE added
             /\ tally' = IF outcome = "ok" /\ m = "r+"
                         THEN [tally EXCEPT !.counts = stored, !.complete = FALSE]
                         ELSE [tally EXCEPT
                                  !.complete = outcome = "ok" /\ tally.finalized
                                               /\ tally.info # NoDbInfo]
             /\ metares' = [NoMeta EXCEPT !.call = "open", !.outcome = outcome]
    /\ pc' = "returned"
    /\ UNCHANGED <<io_vars, attrs, call_vars, tax_vars, families, by_name, by_stage, node_families,
                   result, addres, famres, accres>>

\* FamDB.get_counts()
GetCounts ==
    /\ pc = "idle"
    /\ open_mode # "closed"
    /\ LET r == count_files(1, NoMeta.counts)
       IN metares' = [NoMeta EXCEPT !.call = "get_counts", !.outcome = r.outcome,
                                    !.counts = r.counts]
    /\ pc' = "returned"
    /\ UNCHANGED <<io_vars, attrs, open_mode, tally, call_vars, tax_vars, fam_vars, result, addres,
                   famres, accres>>

\* FamDB.get_db_info(): that of the root partition
GetDbInfo ==
    /\ pc = "idle"
    /\ open_mode # "closed"
    /\ metares' = [NoMeta EXCEPT !.call = "get_db_info", !.outcome = "ok",
                                 !.info = get_db_info(attrs[0])]
    /\ pc' = "returned"
    /\ UNCHANGED <<io_vars, attrs, open_mode, tally, call_vars, tax_vars, fam_vars, result, addres,
                   famres, accres>>

\* get_accessions_filtered(tax_id=1, descendants=True), drained
GetAllAccessions ==
    /\ pc = "idle"
    /\ open_mode # "closed"
    /\ accres' = get_accessions_filtered(WholeRequest)
    /\ pc' = "returned"
    /\ UNCHANGED <<io_vars, meta_vars, call_vars, tax_vars, fam_vars, result, addres, famres>>

NextRound ==
    \/ AddRoundFamily \/ SetDbInfo \/ Finalize \/ Reopen
    \/ GetCounts \/ GetDbInfo \/ GetAllAccessions \/ Return

SpecRound == InitRound /\ [][NextRound]_vars


\* ------------------------------------------------------ taxon name search
\* str.upper()
upper(s) ==
    [i \in 1..Len(s) |->
        IF \E j \in DOMAIN LowerChars : LowerChars[j] = s[i]
        THEN UpperChars[CHOOSE j \in DOMAIN LowerChars : LowerChars[j] = s[i]]
        ELSE s[i]]

\* the letters of SOUNDEX_LOOKUP by their code; H and W carry None
SOUNDEX_LOOKUP ==
    [ch \in {UpperChars[i] : i \in DOMAIN UpperChars} |->
        IF ch \in {"A", "E", "I", "O", "U", "Y"} THEN 0
        ELSE IF ch \in {"B", "F", "P", "V"} THEN 1
        ELSE IF ch \in {"C", "G", "J", "K", "Q", "S", "X", "Z"} THEN 2
        ELSE IF ch \in {"D", "T"} THEN 3
        ELSE IF ch = "L" THEN 4
        ELSE IF ch \in {"M", "N"} THEN 5
        ELSE IF ch = "R" THEN 6
        ELSE None]

RECURSIVE soundex_codes(_)
\* codes = [SOUNDEX_LOOKUP[ch] for ch in word.upper() if ch in SOUNDEX_LOOKUP]
soundex_codes(word) ==
    IF word = <<>> THEN <<>>
    ELSE LET ch == upper(word)[1]
             rest == soundex_codes(Tail(word))
         IN IF ch \in DOMAIN SOUNDEX_LOOKUP THEN <<SOUNDEX_LOOKUP[ch]>> \o rest ELSE rest

RECURSIVE soundex_drop(_, _)
\* the while loop of soundex from 0-based position i: H, W and repeats go
soundex_drop(codes, i) ==
    IF i >= Len(codes) THEN codes
    ELSE IF codes[i + 1] = None \/ codes[i + 1] = codes[i]
         THEN soundex_drop(SubSeq(codes, 1, i) \o SubSeq(codes, i + 2, Len(codes)), i)
    ELSE soundex_drop(codes, i + 1)

RECURSIVE soundex_digits(_)
\* str(code) of the codes above 0
soundex_digits(codes) ==
    IF codes = <<>> THEN <<>>
    ELSE (IF codes[1] > 0 THEN str_int(codes[1]) ELSE <<>>) \o soundex_digits(Tail(codes))

\* soundex(word) for a word of at least one character
soundex(word) ==
    LET codes == soundex_drop(soundex_codes(word), 1)
        coding == <<word[1]>> \o soundex_digits(IF codes = <<>> THEN <<>> ELSE Tail(codes))
        padded == coding \o <<"0", "0", "0">>
    IN SubSeq(padded, 1, 4)

\* sounds_like(first, second)
sounds_like(first, second) == soundex(first) = soundex(second)

RECURSIVE squeeze(_, _)
\* re.sub(r"[\s\,\_]+", "_", name): inrun tells that the run is already written
squeeze(name, inrun) ==
    IF name = <<>> THEN <<>>
    ELSE IF name[1] \in {" ", ",", "_"}
         THEN (IF inrun THEN <<>> ELSE <<"_">>) \o squeeze(Tail(name), TRUE)
    ELSE <<name[1]>> \o squeeze(Tail(name), FALSE)

\* sanitize_name(name)
sanitize_name(name) ==
    SelectSeq(squeeze(name, FALSE), LAMBDA c : c \notin {"(", ")", "<", ">", "'"})

\* name_match without the comparison against the sanitized name
name_match_NoSanitized(text, kind, search_similar, name) ==
    LET name_txt == lower(name.text)
    IN IF ~(kind = "" \/ kind = name.name_class) THEN ""
       ELSE IF text = name_txt THEN "exact"
       ELSE IF startswith(name_txt, text \o <<" ", "<">>) THEN "exact"
       ELSE IF contains(text, name_txt) THEN "inexact"
       ELSE IF search_similar /\ sounds_like(text, name_txt) THEN "inexact"
       ELSE ""

\* how one name record answers the query inside search_taxon_names:
\* "exact", "inexact" or "" when it does not match or is of another kind
name_match(text, kind, search_similar, name) ==
    LET name_txt == lower(name.text)
    IN IF ~(kind = "" \/ kind = name.name_class) THEN ""
       ELSE IF text = name_txt THEN "exact"
       ELSE IF startswith(name_txt, text \o <<" ", "<">>) THEN "exact"
       ELSE IF text = sanitize_name(name_txt) THEN "exact"
       ELSE IF contains(text, name_txt) THEN "inexact"
       ELSE IF search_similar /\ sounds_like(text, name_txt) THEN "inexact"
       ELSE ""

\* the (partition, taxon) pairs of names_dump in the order the loops visit them
names_order ==
    LET partitions == SortedSeq(DOMAIN names_dump)
        pairs(p) == LET ids == SortedSeq(DOMAIN names_dump[p])
                    IN [i \in DOMAIN ids |-> [partition |-> p, tax_id |-> ids[i]]]
        RECURSIVE cat(_)
        cat(i) == IF i > Len(partitions) THEN <<>> ELSE pairs(partitions[i]) \o cat(i + 1)
    IN cat(1)

\* FamDBRoot.search_taxon_names(text, kind, search_similar), drained; kind ""
\* stands for None
search_taxon_names(text, kind, search_similar) ==
    LET lowered == lower(text)
        hit(at) == LET names == names_dump[at.partition][at.tax_id]
                       found == {name_match(lowered, kind, search_similar, names[i]) :
                                    i \in DOMAIN names}
                   IN [tax_id |-> at.tax_id, exact |-> "exact" \in found,
                       partition |-> at.partition, matches |-> found \ {""} # {}]
        all == [i \in DOMAIN names_order |-> hit(names_order[i])]
    IN SelectSeq(all, LAMBDA h : h.matches)

\* ranked that keeps the hits in the order of the search
ranked_Unsorted(hits) ==
    [i \in DOMAIN hits |->
        [tax_id |-> hits[i].tax_id, partition |-> hits[i].partition, exact |-> hits[i].exact]]

\* results of resolve_species for a text term: exact hits, then inexact ones
ranked(hits) ==
    LET as_result(h) == [tax_id |-> h.tax_id, partition |-> h.partition, exact |-> h.exact]
        exact == SelectSeq(hits, LAMBDA h : h.exact)
        inexact == SelectSeq(hits, LAMBDA h : ~h.exact)
    IN [i \in DOMAIN exact |-> as_result(exact[i])]
       \o [i \in DOMAIN inexact |-> as_result(inexact[i])]

\* results of resolve_species for a term that int() accepts
by_number(tax_id) ==
    LET holders == {p \in DOMAIN names_dump : tax_id \in DOMAIN names_dump[p]}
    IN IF holders = {} THEN <<>>
       ELSE <<[tax_id |-> tax_id, exact |-> TRUE,
               partition |-> CHOOSE p \in holders : \A q \in holders : p <= q]>>

\* the list resolve_species builds before it looks at its length
resolved(term, kind, search_similar) ==
    IF int(term) # None THEN by_number(int(term))
    ELSE ranked(search_taxon_names(term, kind, search_similar))

\* "for tax_id, _ in similar_results": each result has three elements, so the
\* first one fails to unpack
near_miss(similar_results) ==
    IF similar_results = <<>> THEN "" ELSE "ValueError"

\* the end of resolve_species: the near-miss names go to stderr between the
\* retry and the return
resolve_species_end(results, retry, similar_results) ==
    [outcome |-> IF near_miss(similar_results) = "" THEN "ok" ELSE near_miss(similar_results),
     results |-> results, retried |-> retry, similar |-> similar_results,
     feedback |-> similar_results # <<>>]

\* "similar_results = self.resolve_species(term, kind, True)" when
\* "len(results) == 0 and not search_similar" holds
resolve_species_retry(term, kind, results, retry) ==
    resolve_species_end(results, retry, IF retry THEN resolved(term, kind, TRUE) ELSE <<>>)

\* FamDBRoot.resolve_species(term, kind, search_similar): what the call gives,
\* whether it retried with the phonetic search, and what the retry found
resolve_species(term, kind, search_similar) ==
    resolve_species_retry(term, kind, resolved(term, kind, search_similar),
        int(term) = None /\ resolved(term, kind, search_similar) = <<>> /\ ~search_similar)

\* the choice resolve_one_species makes among the results of resolve_species
one_species(r) ==
    LET results == r.results
        exact_matches == SelectSeq(results, LAMBDA x : x.exact)
        given(outcome, hit) ==
            [outcome |-> outcome, tax_id |-> hit[1], partition |-> hit[2],
             candidates |-> <<>>, results |-> results]
    IN IF r.outcome # "ok" THEN given(r.outcome, <<None, None>>)
       ELSE IF Len(exact_matches) = 1
            THEN given("Found", <<exact_matches[1].tax_id, exact_matches[1].partition>>)
       ELSE IF Len(results) = 1
            THEN given("Found", <<results[1].tax_id, results[1].partition>>)
       ELSE IF Len(results) > 1 THEN given("Ambiguous", <<None, None>>)
       ELSE given("NotFound", <<None, None>>)

\* FamDBRoot.resolve_one_species(term, kind)
resolve_one_species(term, kind) == one_species(resolve_species(term, kind, FALSE))

\* ------------------------------------------------ state machine of the name search
SCIENTIFIC == "scientific name"
COMMON == "common name"
MUS == <<"M", "u", "s">>
MUS_GENUS == <<"M", "u", "s", " ", "<", "g", "e", "n", "u", "s", ">">>
MUS_MUSCULUS == <<"M", "u", "s", " ", "m", "u", "s", "c", "u", "l", "u", "s">>
HOUSE_MOUSE == <<"h", "o", "u", "s", "e", " ", "m", "o", "u", "s", "e">>
MICE == <<"m", "i", "c", "e">>
MOS == <<"M", "o", "s">>
RATTUS == <<"R", "a", "t", "t", "u", "s">>
ROOT_NAME == <<"r", "o", "o", "t">>

\* the name lists a taxon below the root can carry
NameLists ==
    {<<[name_class |-> SCIENTIFIC, text |-> MUS]>>,
     <<[name_class |-> SCIENTIFIC, text |-> MUS_GENUS], [name_class |-> COMMON, text |-> MICE]>>,
     <<[name_class |-> SCIENTIFIC, text |-> MUS_MUSCULUS],
       [name_class |-> COMMON, text |-> HOUSE_MOUSE]>>,
     <<[name_class |-> SCIENTIFIC, text |-> MOS]>>,
     <<[name_class |-> SCIENTIFIC, text |-> RATTUS]>>}

\* the names tables: the root is called root, taxa 2 and 3 have one of the
\* lists each, the later taxa share one of two; the taxa sit in the
\* partitions of the scenario
NamesDumps ==
    {[p \in {ScenarioPart[n] : n \in Taxa} |->
        [n \in {m \in Taxa : ScenarioPart[m] = p} |->
            IF n = 1 THEN <<[name_class |-> SCIENTIFIC, text |-> ROOT_NAME]>>
            ELSE IF n <= 3 THEN lists[n]
            ELSE IF late THEN <<[name_class |-> SCIENTIFIC, text |-> MOS]>>
            ELSE <<[name_class |-> SCIENTIFIC, text |-> MUS_MUSCULUS],
                   [name_class |-> COMMON, text |-> HOUSE_MOUSE]>>]] :
        lists \in [{2, 3} -> NameLists], late \in BOOLEAN}

\* what the callers ask for
Terms ==
    {MUS, lower(MUS), <<"m", "u", "s", "_", "m", "u", "s", "c", "u", "l", "u", "s">>, <<"M", "a", "s">>, <<"m", "o", "u", "s", "e">>, <<"x", "y", "z">>,
     <<"u", "s">>, <<"2">>, <<"9">>}
Kinds == {"", SCIENTIFIC, COMMON}

InitNames ==
    /\ tax_db = ScenarioDb
    /\ nodes = [p \in Parts |-> write_taxonomy(ScenarioDb, {n \in Taxa : ScenarioPart[n] = p})]
    /\ names_dump \in NamesDumps
    /\ files = {0, 1}
    /\ listing = <<0, 1>>
    /\ pc = "idle"
    /\ result = NoResult
    /\ addres = NoAdd
    /\ NoFamilies
    /\ NothingOpened

\* list(search_taxon_names(text, kind, search_similar))
SearchTaxonNames ==
    /\ pc = "idle"
    /\ \E text \in Terms, kind \in Kinds, search_similar \in BOOLEAN :
          callres' = [call |-> "search_taxon_names", text |-> text, kind |-> kind,
                      search_similar |-> search_similar,
                      hits |-> search_taxon_names(text, kind, search_similar)]
    /\ pc' = "returned"
    /\ UNCHANGED <<io_vars, meta_vars, lineage_cache, tax_vars, fam_vars, result, addres,
                   famres, accres>>

\* resolve_species(term, kind, search_similar)
ResolveSpecies ==
    /\ pc = "idle"
    /\ \E term \in Terms, kind \in Kinds, search_similar \in BOOLEAN :
          callres' = [call |-> "resolve_species", text |-> term, kind |-> kind,
                      search_similar |-> search_similar,
                      hits |-> search_taxon_names(term, kind, search_similar),
                      got |-> resolve_species(term, kind, search_similar)]
    /\ pc' = "returned"
    /\ UNCHANGED <<io_vars, meta_vars, lineage_cache, tax_vars, fam_vars, result, addres,
                   famres, accres>>

\* resolve_one_species(term, kind)
ResolveOneSpecies ==
    /\ pc = "idle"
    /\ \E term \in Terms, kind \in Kinds :
          callres' = [call |-> "resolve_one_species", text |-> term, kind |-> kind,
                      got |-> resolve_one_species(term, kind)]
    /\ pc' = "returned"
    /\ UNCHANGED <<io_vars, meta_vars, lineage_cache, tax_vars, fam_vars, result, addres,
                   famres, accres>>

NextNames == SearchTaxonNames \/ ResolveSpecies \/ ResolveOneSpecies \/ Return

SpecNames == InitNames /\ [][NextNames]_vars


\* ------------------------------------------------ state machine of accession_bin
BinKinds == {<<"D", "F">>, <<"D", "R">>, <<"d", "f">>, <<"D", "X">>, <<"X", "Y">>, <<"D">>, <<>>}
BinDigits == <<"0", "1", "0", "2", "0", "3", "0", "0", "4", "5", "6", "7", "8", "9">>
BinTails == {<<>>, <<"v">>}

\* the accessions handed to accession_bin: a kind, up to thirteen digits and
\* possibly a trailing letter
BinAccessions ==
    {kind \o SubSeq(BinDigits, 1, n) \o tail :
        kind \in BinKinds, n \in 0..(Len(BinDigits) - 1), tail \in BinTails}

\* accession_bin(acc)
AccessionBin ==
    /\ pc = "idle"
    /\ \E acc \in BinAccessions :
          callres' = [call |-> "accession_bin", acc |-> acc, path |-> accession_bin(acc)]
    /\ pc' = "returned"
    /\ UNCHANGED <<io_vars, meta_vars, lineage_cache, tax_vars, fam_vars, result, addres,
                   famres, accres>>

NextBin == AccessionBin \/ Return

SpecBin == InitRound /\ [][NextBin]_vars


\* --------------------------------------------- state machine of Lineage.__init__
\* what can hang below a node: a leaf-link marker, a nested one-node list, or
\* a nested node with a leaf-link marker of its own
TreeKids(child) ==
    {StrE(LEAF_LINK, child), ListE(<<IntE(child)>>),
     ListE(<<IntE(child), StrE(LEAF_LINK, child + 2)>>)}

\* the descendant part of a tree: taxon 2 with no, one or two children
Subtrees ==
    {<<IntE(2)>>}
        \cup {<<IntE(2), k>> : k \in TreeKids(3)}
        \cup {<<IntE(2), k, l>> : k \in TreeKids(3), l \in TreeKids(4)}

\* the trees handed to the constructor: a subtree as it is, below its parent,
\* or below a root-link marker
LineageTrees ==
    Subtrees
        \cup {<<IntE(1), ListE(t)>> : t \in Subtrees}
        \cup {<<StrE(ROOT_LINK, 2), ListE(t)>> : t \in Subtrees}

\* Lineage(tree, root, partition_num)
ConstructLineage ==
    /\ pc = "idle"
    /\ \E tree \in LineageTrees, root \in BOOLEAN, partition_num \in Parts :
          callres' = [call |-> "Lineage", tree |-> tree, root |-> root,
                      made |-> Lineage(tree, root, partition_num)]
    /\ pc' = "returned"
    /\ UNCHANGED <<io_vars, meta_vars, lineage_cache, tax_vars, fam_vars, result, addres,
                   famres, accres>>

NextTree == ConstructLineage \/ Return

SpecTree == InitRound /\ [][NextTree]_vars


\* ----------------------------------------------------- lineage paths and their cache
\* an entry of a lineage path: [name, partition] when paired, the bare name
\* otherwise; name 0 stands for "Not Found" and partition None for "N/A"
PathEntry(name, partition, paired) ==
    [name |-> name, partition |-> IF paired THEN partition ELSE None, paired |-> paired]

\* FamDBRoot.get_taxon_name(tax_id, kind) over the names table of an instance
get_taxon_name(names, node, kind) ==
    LET of_kind(p) == {i \in DOMAIN names[p][node.v] : names[p][node.v][i].name_class = kind}
        holders == {p \in DOMAIN names :
                        node.k = "int" /\ node.v \in DOMAIN names[p] /\ of_kind(p) # {}}
        partition == CHOOSE p \in holders : \A q \in holders : p <= q
        first == CHOOSE i \in of_kind(partition) : \A j \in of_kind(partition) : i <= j
    IN IF holders = {} THEN [name |-> 0, partition |-> None]
       ELSE [name |-> names[partition][node.v][first].text, partition |-> partition]

RECURSIVE path_nodes(_)
\* the "while tree" loop of get_lineage_path: the first element of the tree,
\* then the same for the first list among the other elements
path_nodes(tree) ==
    IF tree = <<>> THEN <<>>
    ELSE LET lists == {i \in 2..Len(tree) : tree[i].k = "list"}
         IN <<tree[1]>> \o
            (IF lists = {} THEN <<>>
             ELSE path_nodes(tree[CHOOSE i \in lists : \A j \in lists : i <= j].sub))

\* the list the loop builds from a tree
path_names(names, walked, partition) ==
    [i \in DOMAIN walked |->
        PathEntry(get_taxon_name(names, walked[i], "scientific name").name,
                  get_taxon_name(names, walked[i], "scientific name").partition,
                  partition)]

\* lines 597-624 of FamDBRoot.get_lineage_path for the tree it works on
path_of_tree(names, own, cache, partition) ==
    IF own.exc # ""
    THEN [outcome |-> "raised", exc |-> own.exc, path |-> <<>>, hit |-> FALSE, store |-> FALSE]
    ELSE [outcome |-> "ok", exc |-> "", path |-> path_names(names, path_nodes(own.tree), partition),
          hit |-> FALSE, store |-> cache]

\* FamDBRoot.get_lineage_path(tax_id, tree, cache, partition) after
\* get_lineage_combined gave lineage; cached is the cache of the instance
root_get_lineage_path(names, cached, tax_id, lineage, cache, partition) ==
    IF lineage.outcome = "raised"
    THEN [outcome |-> "raised", exc |-> lineage.exc, path |-> <<>>, hit |-> FALSE,
          store |-> FALSE]
    ELSE IF cache /\ tax_id \in DOMAIN cached
    THEN [outcome |-> "ok", exc |-> "", path |-> cached[tax_id], hit |-> TRUE, store |-> FALSE]
    ELSE path_of_tree(names,
                      IF lineage.outcome = "ok"
                      THEN [exc |-> "", tree |-> lineage.tree]
                      ELSE [exc |-> get_lineage(0, tax_id, TRUE, FALSE, FALSE).exc,
                            tree |-> get_lineage(0, tax_id, TRUE, FALSE, FALSE).tree],
                      cache, partition)

\* FamDB.get_lineage_path(tax_id, ancestors=, partition=, cache=)
get_lineage_path(names, cached, tax_id, ancestors, cache, partition) ==
    root_get_lineage_path(names, cached, tax_id,
                          get_lineage_combined(tax_id, ancestors, FALSE, FALSE),
                          cache, partition)

\* ------------------------------------------------ state machine of the path cache
Databases == 1..2
PathIds == {2, 3, MaxTaxon + 1}

\* the names an instance has read: the first one those of names_dump, the
\* second one those of another generation with every taxon renamed
names_of(db) ==
    IF db = 1 THEN names_dump
    ELSE [p \in DOMAIN names_dump |->
            [n \in DOMAIN names_dump[p] |->
                <<[name_class |-> "scientific name", text |-> n + MaxTaxon + 1]>>]]

InitCache ==
    /\ tax_db = ScenarioDb
    /\ nodes = [p \in Parts |-> write_taxonomy(ScenarioDb, {n \in Taxa : ScenarioPart[n] = p})]
    /\ names_dump = write_taxa_names(ScenarioDb, ScenarioPart)
    /\ files = Parts
    /\ listing = SortedSeq(Parts)
    /\ pc = "idle"
    /\ result = NoResult
    /\ addres = NoAdd
    /\ NoFamilies
    /\ NothingOpened

\* get_lineage_path on one of two open databases; fresh is what the same
\* call computes with cache=False
GetLineagePath ==
    /\ pc = "idle"
    /\ \E db \in Databases, tax_id \in PathIds, ancestors \in BOOLEAN,
          cache \in BOOLEAN, partition \in BOOLEAN :
          LET got == get_lineage_path(names_of(db), lineage_cache[db], tax_id, ancestors,
                                      cache, partition)
          IN /\ callres' = [call |-> "get_lineage_path", db |-> db, tax_id |-> tax_id,
                            ancestors |-> ancestors, cache |-> cache,
                            partition |-> partition, got |-> got,
                            fresh |-> get_lineage_path(names_of(db), lineage_cache[db],
                                                       tax_id, ancestors, FALSE, partition)]
             /\ lineage_cache' =
                    IF got.store
                    THEN [lineage_cache EXCEPT
                            ![db] = [t \in DOMAIN @ \cup {tax_id} |->
                                        IF t = tax_id THEN got.path ELSE @[t]]]
                    ELSE lineage_cache
    /\ pc' = "returned"
    /\ UNCHANGED <<io_vars, meta_vars, tax_vars, fam_vars, result, addres, famres, accres>>

NextCache == GetLineagePath \/ Return

SpecCache == InitCache /\ [][NextCache]_vars


\* ------------------------------------------ families of a taxon, curated or not
\* FamDBLeaf.get_families_for_taxon(tax_id, curated_only, uncurated_only) on
\* partition p: x[1] is the second character of a key
leaf_get_families_for_taxon(p, tax_id, curated_only, uncurated_only) ==
    LET keys == IF tax_id \in DOMAIN node_families[p]
                THEN KeysOf(node_families[p][tax_id]) ELSE <<>>
        short == \E i \in DOMAIN keys : Len(keys[i]) < 2
    IN IF curated_only
       THEN IF short THEN [outcome |-> "IndexError", accs |-> <<>>]
            ELSE [outcome |-> "ok", accs |-> SelectSeq(keys, LAMBDA x : x[2] = "F")]
       ELSE IF uncurated_only
       THEN IF short THEN [outcome |-> "IndexError", accs |-> <<>>]
            ELSE [outcome |-> "ok", accs |-> SelectSeq(keys, LAMBDA x : x[2] = "R")]
       ELSE [outcome |-> "ok", accs |-> keys]

\* ------------------------------------------ state machine of the curated filter
DR_OLD == <<"D", "R", "0", "0", "0", "0", "0", "0", "1">>
CR1 == <<"C", "R", "1">>
MER1 == <<"M", "E", "R", "1">>

\* unnamed families of taxa 2 and 3 under Dfam and other accessions
CuratedFamilies ==
    {[accession |-> a, name |-> <<>>, clades |-> {2, 3},
      search_stages |-> <<>>, buffer_stages |-> <<>>,
      consensus |-> TRUE, model |-> FALSE,
      repeat_type |-> <<>>, repeat_subtype |-> <<>>] :
        a \in {DF1, DR1, DR_OLD, CR1, MER1}}

\* a builder appends one of these families to one open partition file
AddCuratedFamily ==
    /\ pc = "idle"
    /\ \E p \in files, family \in CuratedFamilies : Stored(p, family)
    /\ pc' = "returned"
    /\ UNCHANGED <<io_vars, meta_vars, call_vars, tax_vars, result, addres, accres>>

\* FamDB.get_families_for_taxon(tax_id, partition, curated_only, uncurated_only)
\* on an open partition; all is what the call gives without a flag
GetFamiliesForTaxon ==
    /\ pc = "idle"
    /\ \E p \in files, tax_id \in {2, 3}, curated_only \in BOOLEAN, uncurated_only \in BOOLEAN :
          callres' = [call |-> "get_families_for_taxon", partition |-> p, tax_id |-> tax_id,
                      curated_only |-> curated_only, uncurated_only |-> uncurated_only,
                      all |-> leaf_get_families_for_taxon(p, tax_id, FALSE, FALSE).accs,
                      got |-> leaf_get_families_for_taxon(p, tax_id, curated_only,
                                                          uncurated_only)]
    /\ pc' = "returned"
    /\ UNCHANGED <<io_vars, meta_vars, lineage_cache, tax_vars, fam_vars, result, addres,
                   famres, accres>>

NextCurated == AddCuratedFamily \/ GetFamiliesForTaxon \/ Return

SpecCurated == InitFam /\ [][NextCurated]_vars


\* ------------------------------------------------ state machine of the splice order
RECURSIVE combine_in(_, _, _)
\* the combining loop over the lineages in a given order; leaf_first puts the
\* leaf lineage on the left of each "+"
combine_in(base, lins, leaf_first) ==
    IF lins = <<>> \/ base.exc # "" THEN base
    ELSE combine_in(IF leaf_first THEN LineageAdd(Head(lins), base)
                    ELSE LineageAdd(base, Head(lins)),
                    Tail(lins), leaf_first)

\* the orders in which n lineages can be taken
Orders(n) == {f \in [1..n -> 1..n] : \A i, j \in 1..n : f[i] = f[j] => i = j}

\* the lineage of a root-partition taxon with its leaf lineages spliced in
\* the given order, links stripped as get_lineage_combined strips them
spliced_in(base, lins, order, leaf_first) ==
    LET sum == combine_in(base, [i \in DOMAIN lins |-> lins[order[i]]], leaf_first)
    IN [exc |-> IF FirstExc(lins) # "" THEN FirstExc(lins) ELSE sum.exc,
        tree |-> IF FirstExc(lins) # "" \/ sum.exc # "" THEN <<>> ELSE remove_links(sum.tree)]

\* ancestors and leaf_first of a splice: with ancestors either operand
\* order, without them the leaf lineage on the left
SpliceFlags == {<<TRUE, FALSE>>, <<TRUE, TRUE>>, <<FALSE, TRUE>>}

\* a caller splices the leaf lineages of a descendants query on a taxon of
\* the root partition in an order of its own; code is what
\* get_lineage_combined returns for the query
SpliceInOrder ==
    /\ pc = "idle"
    /\ \E tax_id \in DOMAIN nodes[0], flags \in SpliceFlags :
         LET ancestors == flags[1]
             leaf_first == flags[2]
             base == get_lineage(0, tax_id, ancestors, TRUE, FALSE)
             lins == add_lineages(LeafLinkValues(base), 1)
             code == get_lineage_combined(tax_id, ancestors, TRUE, FALSE)
         IN \E order \in Orders(Len(lins)) :
              callres' = [call |-> "splice", tax_id |-> tax_id, ancestors |-> ancestors,
                          leaf_first |-> leaf_first, order |-> order,
                          partitions |-> {0} \cup {lins[i].partition : i \in DOMAIN lins},
                          got |-> spliced_in(base, lins, order, leaf_first),
                          code |-> [exc |-> code.exc, tree |-> code.tree]]
    /\ pc' = "returned"
    /\ UNCHANGED <<io_vars, meta_vars, lineage_cache, tax_vars, fam_vars, result, addres,
                   famres, accres>>

NextOrder == SpliceInOrder \/ Return

\* any taxonomy and partitioning, with every partition file open or the last
\* one absent
InitOrder ==
    \E db \in TaxDbs :
      \E part \in Partitionings(db) :
        \E open \in {1..MaxPart, 1..(MaxPart - 1)} :
            /\ tax_db = db
            /\ nodes = [p \in Parts |-> write_taxonomy(db, {n \in Taxa : part[n] = p})]
            /\ names_dump = write_taxa_names(db, part)
            /\ files = {0} \cup open
            /\ listing = SortedSeq({0} \cup open)
            /\ pc = "idle"
            /\ result = NoResult
            /\ addres = NoAdd
            /\ NoFamilies
            /\ NothingOpened

SpecOrder == InitOrder /\ [][NextOrder]_vars


\* ------------------------------------------ util/RM2Bed.py: overlap resolution
\* An annotation is one line of a RepeatMasker *.out file: the record keeps the
\* fields the resolution reads (score [0], query sequence [4], query start [5],
\* query end [6], Kimura divergence [16], -1.0 when the line has none) and the
\* number of the line in the file, which stands for the identity of the list
\* object that the clusters share with results.

\* Python's sorted(): stable, and with reverse=True equal keys keep their order too
sorted(s, key(_), reverse) ==
    LET before(j, i) == IF key(s[j]) = key(s[i]) THEN j < i
                        ELSE IF reverse THEN key(s[j]) > key(s[i])
                        ELSE key(s[j]) < key(s[i])
        rank(i) == 1 + Cardinality({j \in 1..Len(s) : before(j, i)})
    IN  [r \in 1..Len(s) |-> s[CHOOSE i \in 1..Len(s) : rank(i) = r]]

by_query_start(annot) == annot.start
by_score(annot) == annot.score
by_length(annot) == annot.end - annot.start
by_divergence(annot) == IF annot.diverge >= 0 THEN annot.diverge ELSE 101

\* body of the inner loop: what the annotation a_res does to a later b_res
resolve_pair(a_res, b_res) ==
    LET a_len == a_res.end - a_res.start + 1
        b_len == b_res.end - b_res.start + 1
        max_start == IF a_res.start > b_res.start THEN a_res.start ELSE b_res.start
        min_end == IF a_res.end < b_res.end THEN a_res.end ELSE b_res.end
        overlap == min_end - max_start + 1
    IN  IF b_res.start = 0 /\ b_res.end = 0 THEN b_res
        ELSE IF overlap > 0
             THEN IF a_len = overlap \/ b_len = overlap
                  THEN [b_res EXCEPT !.start = 0, !.end = 0]
                  ELSE IF a_res.start < b_res.start
                       THEN [b_res EXCEPT !.start = @ + overlap]
                       ELSE [b_res EXCEPT !.end = @ - overlap]
             ELSE b_res

\* the two nested loops the three resolve functions share, from index i on
RECURSIVE resolve_cluster(_, _)
resolve_cluster(cluster, i) ==
    IF i > Len(cluster) THEN cluster
    ELSE resolve_cluster(
             IF cluster[i].start = 0 /\ cluster[i].end = 0 THEN cluster
             ELSE [j \in 1..Len(cluster) |->
                      IF j > i THEN resolve_pair(cluster[i], cluster[j]) ELSE cluster[j]],
             i + 1)

resolve_using_lower_divergence(cluster) ==
    resolve_cluster(sorted(cluster, by_divergence, FALSE), 1)

resolve_using_longer_element(cluster) ==
    resolve_cluster(sorted(cluster, by_length, TRUE), 1)

resolve_using_higher_score(cluster) ==
    resolve_cluster(sorted(cluster, by_score, TRUE), 1)

\* the dispatch on --ovlp_resolution for a cluster of more than one annotation;
\* the functions change the annotations in place, so results sees the changes
resolve_in(ovlp_resolution, results, cluster) ==
    LET members == [i \in 1..Len(cluster) |-> results[cluster[i]]]
        changed == IF ovlp_resolution = "higher_score" THEN resolve_using_higher_score(members)
                   ELSE IF ovlp_resolution = "longer_element" THEN resolve_using_longer_element(members)
                   ELSE resolve_using_lower_divergence(members)
    IN  IF Len(cluster) > 1
        THEN [k \in 1..Len(results) |->
                 IF \E i \in 1..Len(changed) : changed[i].id = results[k].id
                 THEN changed[CHOOSE i \in 1..Len(changed) : changed[i].id = results[k].id]
                 ELSE results[k]]
        ELSE results

\* no query sequence seen yet (last_query_seq = None)
NoQuerySeq == ""

\* the loop of main over the sorted results, from the k-th on; cluster holds the
\* positions in results of the annotations collected so far
RECURSIVE find_clusters(_, _, _, _, _, _)
find_clusters(ovlp_resolution, results, k, cluster, max_query_end, last_query_seq) ==
    IF k > Len(results) THEN resolve_in(ovlp_resolution, results, cluster)
    ELSE IF results[k].seq # last_query_seq \/ results[k].start > max_query_end
         THEN find_clusters(ovlp_resolution, resolve_in(ovlp_resolution, results, cluster),
                            k + 1, <<k>>,
                            IF results[k].end > 0 THEN results[k].end ELSE 0,
                            results[k].seq)
         ELSE find_clusters(ovlp_resolution, results, k + 1, Append(cluster, k),
                            IF results[k].end > max_query_end THEN results[k].end
                            ELSE max_query_end,
                            results[k].seq)

\* the rows that reach the output: start != 0 and stop != 0
is_retained(annot) == annot.start # 0 /\ annot.end # 0

\* main with --ovlp_resolution set and no other filter: sort by query start,
\* resolve the clusters, drop the removed annotations
rm2bed(ovlp_resolution, annots) ==
    SelectSeq(find_clusters(ovlp_resolution, sorted(annots, by_query_start, FALSE),
                            1, <<>>, 0, NoQuerySeq),
              is_retained)

\* ------------------------------------------------------ state machine of RM2Bed
MaxBase == 3
MaxAnnots == 3
QuerySeqs == {"chr1", "chr2"}
\* score and divergence of a line; -1 is a line with no divergence
Scorings == {[score |-> 1, diverge |-> 0 - 1], [score |-> 2, diverge |-> 3]}
OvlpResolutions == {"higher_score", "longer_element", "lower_divergence"}
OutLines == {[seq |-> q, start |-> b, end |-> e, score |-> s.score, diverge |-> s.diverge] :
                q \in QuerySeqs, b \in 1..MaxBase, e \in 1..MaxBase, s \in Scorings}
\* the lines of a file, in file order, numbered
OutFiles == UNION {{[i \in 1..n |-> [id |-> i, seq |-> f[i].seq, start |-> f[i].start,
                                      end |-> f[i].end, score |-> f[i].score,
                                      diverge |-> f[i].diverge]] :
                       f \in [1..n -> {l \in OutLines : l.start <= l.end}]} :
                   n \in 1..MaxAnnots}

RM2Bed ==
    /\ pc = "idle"
    /\ \E ovlp_resolution \in OvlpResolutions, annots \in OutFiles :
          callres' = [call |-> "RM2Bed", ovlp_resolution |-> ovlp_resolution,
                      annots |-> annots, retained |-> rm2bed(ovlp_resolution, annots)]
    /\ pc' = "returned"
    /\ UNCHANGED <<io_vars, meta_vars, lineage_cache, tax_vars, fam_vars, result, addres,
                   famres, accres>>

NextBed == RM2Bed \/ Return

SpecBed == InitRound /\ [][NextBed]_vars


\* ================================================================ claims
\* what the taxonomy dump and the name index say, for stating the claims
OwnerOf(n) == CHOOSE p \in DOMAIN names_dump : n \in DOMAIN names_dump[p]
Indexed(n) == \E p \in DOMAIN names_dump : n \in DOMAIN names_dump[p]
KidsOf(n) == SortedSeq({c \in Taxa : tax_db[c] = n})

RECURSIVE InSubtree(_, _)
\* n is t or lies below t in the dump
InSubtree(n, t) == n = t \/ (tax_db[n] # 0 /\ InSubtree(tax_db[n], t))

RECURSIVE ChainAbove(_, _)
ChainAbove(t, tree) ==
    IF tax_db[t] = 0 THEN tree
    ELSE ChainAbove(tax_db[t], <<IntE(tax_db[t]), ListE(tree)>>)

\* the single nested chain from taxon 1 down to t
RefChain(t) == ChainAbove(t, <<IntE(t)>>)

RECURSIVE RefSubtree(_), RefKids(_, _, _)
\* c with all descendants stored in c's own partition
RefSubtree(c) == <<IntE(c)>> \o RefKids(c, KidsOf(c), 1)
RefKids(c, kids, i) ==
    IF i > Len(kids) THEN <<>>
    ELSE (IF OwnerOf(kids[i]) = OwnerOf(c) THEN <<ListE(RefSubtree(kids[i]))>> ELSE <<>>)
         \o RefKids(c, kids, i + 1)

RECURSIVE Count(_, _)
\* how often taxon id n occurs in a nested list
Count(elems, n) ==
    IF elems = <<>> THEN 0
    ELSE LET e == Head(elems)
         IN (IF e.k = "int" /\ e.v = n THEN 1
             ELSE IF e.k = "list" THEN Count(e.sub, n) ELSE 0)
            + Count(Tail(elems), n)

RECURSIVE HasMarker(_)
\* a link string occurs somewhere in a nested list
HasMarker(elems) ==
    \E i \in 1..Len(elems) :
        IsStr(elems[i]) \/ (elems[i].k = "list" /\ HasMarker(elems[i].sub))

RECURSIVE FindList(_, _)
\* the list headed by taxon id n inside a nested list, <<>> if there is none
FindList(elems, n) ==
    IF elems = <<>> THEN <<>>
    ELSE IF elems[1].k = "int" /\ elems[1].v = n THEN elems
    ELSE LET hits == {i \in 1..Len(elems) :
                        elems[i].k = "list" /\ FindList(elems[i].sub, n) # <<>>}
         IN IF hits = {} THEN <<>>
            ELSE FindList(elems[CHOOSE i \in hits : TRUE].sub, n)

IndexIn(seq, x) == CHOOSE i \in 1..Len(seq) : seq[i] = x

\* the entry for child c in the list of its parent, <<>> when it is not there
EntryOf(tree, c) ==
    LET L == FindList(tree, tax_db[c])
        i == IndexIn(KidsOf(tax_db[c]), c) + 1
    IN IF i <= Len(L) /\ L[i].k = "list" THEN L[i].sub ELSE <<>>

\* the children at which a descendant walk from t leaves partition 0
BoundaryKids(t) ==
    {c \in Taxa : /\ tax_db[c] # 0
                  /\ OwnerOf(c) # 0
                  /\ OwnerOf(tax_db[c]) = 0
                  /\ InSubtree(tax_db[c], t)}

Called == result.outcome # "none"
Returned == result.outcome = "ok"

\* C1: for a taxon t of an open non-root partition, get_lineage_combined(t,
\* ancestors=true) returns exactly the nested chain from taxon 1 down to t:
\* each ancestor once, parent above child, no sibling, no boundary marker.
C1_AncestorChain ==
    (/\ Called
     /\ Indexed(result.tax_id)
     /\ OwnerOf(result.tax_id) \in files \ {0}
     /\ result.ancestors /\ ~result.descendants)
    => (Returned /\ result.tree = RefChain(result.tax_id))

\* a chain of three taxa was stitched and a sibling marker was dropped
C1_Witness ==
    /\ Returned
    /\ OwnerOf(result.tax_id) \in files \ {0}
    /\ result.ancestors /\ ~result.descendants
    /\ tax_db[result.tax_id] # 1
    /\ HasMarker(result.spliced)
    /\ result.tree = RefChain(result.tax_id)

\* C2: for a root-partition taxon queried with descendants=true, each leaf
\* boundary child whose partition is open is replaced, in its parent's list and
\* at the marker's position, by that partition's whole subtree below the child.
C2_LeafSubtreeSpliced ==
    (/\ Returned
     /\ OwnerOf(result.tax_id) = 0
     /\ result.descendants)
    => \A c \in BoundaryKids(result.tax_id) :
          OwnerOf(c) \in files => EntryOf(result.tree, c) = RefSubtree(c)

\* a subtree of two levels was spliced below a root node other than taxon 1
C2_Witness ==
    /\ Returned
    /\ OwnerOf(result.tax_id) = 0
    /\ result.descendants
    /\ \E c \in BoundaryKids(result.tax_id) :
          /\ OwnerOf(c) \in files
          /\ Len(RefSubtree(c)) >= 2
          /\ EntryOf(result.tree, c) = RefSubtree(c)

\* C3: for every taxon t of the taxonomy and every choice of the flags, the
\* returned tree holds t exactly once and no taxon id twice.
C3_EachTaxonOnce ==
    Returned =>
        /\ Count(result.tree, result.tax_id) = 1
        /\ \A n \in QueryIds : Count(result.tree, n) <= 1

\* a tree stitched from partition 0 and two other open partitions
C3_Witness ==
    /\ Returned
    /\ \E a \in Taxa, b \in Taxa :
          /\ OwnerOf(a) # 0 /\ OwnerOf(b) # 0 /\ OwnerOf(a) # OwnerOf(b)
          /\ {OwnerOf(a), OwnerOf(b)} \subseteq files
          /\ Count(result.tree, a) = 1 /\ Count(result.tree, b) = 1
          /\ Count(result.tree, 1) = 1

\* the boundary children of the query whose partition file is not open
AbsentKids == {c \in BoundaryKids(result.tax_id) : OwnerOf(c) \notin files}

\* C4: a leaf boundary whose partition is not open does not make the call fail:
\* the child stays as a terminal node and the missing map holds exactly these
\* children with their partition numbers.
C4_MissingPartition ==
    (/\ Called
     /\ Indexed(result.tax_id)
     /\ OwnerOf(result.tax_id) = 0
     /\ result.descendants)
    => /\ Returned
       /\ \A c \in AbsentKids : EntryOf(result.tree, c) = <<IntE(c)>>
       /\ AbsentKids # {} => result.has_missing
       /\ result.has_missing => result.missing = [c \in AbsentKids |-> OwnerOf(c)]

\* one boundary child is absent while another one is installed
C4_Witness ==
    /\ Returned
    /\ OwnerOf(result.tax_id) = 0
    /\ result.descendants
    /\ AbsentKids # {}
    /\ BoundaryKids(result.tax_id) \ AbsentKids # {}
    /\ result.missing = [c \in AbsentKids |-> OwnerOf(c)]

\* C5 as stated: no marker is left unless the caller asked to keep them, and
\* then the unresolved markers are still in the result.
C5_KeepOnRequest ==
    Returned =>
        IF result.remove_links THEN ~HasMarker(result.tree)
        ELSE result.tree = result.spliced

\* C5 amended: the returned tree never holds a boundary marker, whether or not
\* the caller passes remove_links.
C5_NoResidualMarker == Returned => ~HasMarker(result.tree)

\* unresolved markers were stripped although remove_links was not passed
C5_Witness ==
    /\ Returned
    /\ ~result.remove_links
    /\ HasMarker(result.spliced)
    /\ ~HasMarker(result.tree)

\* C6: Lineage.__add__ succeeds only for one root-owned and one non-root-owned
\* operand, fails at once for two of the same ownership, and a result is
\* root-owned with the root operand's partition number, on either side.
C6_AddOwnership ==
    addres.outcome # "none" =>
        /\ addres.self_root = addres.other_root =>
              /\ addres.outcome = "raised"
              /\ addres.exc = "Must Combine Root and Non-Root Lineages"
        /\ addres.outcome = "ok" =>
              /\ addres.self_root # addres.other_root
              /\ addres.root
              /\ addres.partition = IF addres.self_root THEN addres.self_partition
                                    ELSE addres.other_partition

\* a non-root Lineage on the left was spliced into a root Lineage on the right
C6_Witness ==
    /\ addres.outcome = "ok"
    /\ ~addres.self_root /\ addres.other_root
    /\ addres.self_partition # addres.other_partition
    /\ Count(addres.tree, 1) = 1
    /\ Len(addres.tree) >= 2

\* C7: an id absent from the name index gives TaxonNotFound, an id whose
\* partition file is not open gives PartitionUnavailable; both return without
\* raising and without reading any node table.
C7_EarlyOutcomes ==
    Called =>
        /\ ~Indexed(result.tax_id) =>
              result.outcome = "TaxonNotFound" /\ result.queried = {}
        /\ (Indexed(result.tax_id) /\ OwnerOf(result.tax_id) \notin files) =>
              result.outcome = "PartitionUnavailable" /\ result.queried = {}

\* a taxon the index places in a partition whose file is not open was asked for
C7_Witness ==
    /\ result.outcome = "PartitionUnavailable"
    /\ Indexed(result.tax_id)
    /\ OwnerOf(result.tax_id) \notin files
    /\ result.queried = {}

\* ------------------------------------------------- claims on the accession query
\* helpers for stating the claims
AsSet(seq) == {seq[i] : i \in DOMAIN seq}
Occurrences(seq, x) == Cardinality({i \in DOMAIN seq : seq[i] = x})
Queried == accres.outcome # "none"

\* C8: in every query plan of get_accessions_filtered each accession is
\* yielded at most once per call, even when iterate_accs reaches it through
\* several lineage nodes, several stage groups or several partitions.
C8_YieldedOnce ==
    \A i \in DOMAIN accres.out, j \in DOMAIN accres.out :
        accres.out[i] = accres.out[j] => i = j

\* a stage-95 scan that met one accession under two stage groups in each of
\* two partitions and yielded it
C8_Witness ==
    /\ accres.outcome = "ok"
    /\ accres.plan = "by_stage"
    /\ accres.kwargs.stage = 95
    /\ \E a \in AsSet(accres.out) : Occurrences(accres.iterated, a) >= 4

\* the tree-walk branch run on the request of the last call, with the same
\* filter chain
TreeWalkOfLast ==
    planned(accres.kwargs, assemble_filters(accres.kwargs), "tree_walk")

\* C9: for any contents produced by add_family, a whole-database request
\* with a stage and neither repeat-type nor name filter gets from the
\* by-stage index plan exactly the set of accessions that the tree walk over
\* the combined lineage of taxon 1, filtered by the stage predicate, gives.
C9_ByStageEqualsTreeWalk ==
    (Queried /\ accres.plan = "by_stage") =>
        /\ accres.raised = ""
        /\ TreeWalkOfLast.raised = ""
        /\ AsSet(accres.out) = AsSet(TreeWalkOfLast.out)

\* the request shape, read off the keyword arguments
WholeDatabase(kw) == ~kw.given \/ (kw.tax_id = 1 /\ kw.descendants)
StageFilter(kw) == kw.stage # 0 /\ kw.stage # 80
TypeOrName(kw) == kw.repeat_type # <<>> \/ kw.name # <<>>

\* C10 as stated: (a) the by-stage scan iff whole-database with a stage
\* filter and neither repeat-type nor name filter; (b) the direct Families
\* iteration iff whole-database with no stage filter; (c) the tree walk in
\* every other case, including whole-database requests with a stage filter
\* together with a repeat-type or name filter.
C10_PlanByShape ==
    Queried =>
        LET kw == accres.kwargs
            a == WholeDatabase(kw) /\ StageFilter(kw) /\ ~TypeOrName(kw)
            b == WholeDatabase(kw) /\ ~StageFilter(kw)
        IN /\ accres.plan = "by_stage" <=> a
           /\ accres.plan = "families" <=> b
           /\ accres.plan = "tree_walk" <=> (~a /\ ~b)

\* C10: get_accessions_filtered chooses exactly one plan from the request
\* shape: (a) the by-stage scan iff whole-database with a stage filter and
\* neither repeat-type nor name filter; (b) the direct Families iteration iff
\* whole-database and (a) does not apply, which includes a stage filter
\* together with a repeat-type or name filter; (c) the tree walk iff the
\* request is not whole-database.
C10_PlanSelection ==
    Queried =>
        LET kw == accres.kwargs
            a == WholeDatabase(kw) /\ StageFilter(kw) /\ ~TypeOrName(kw)
        IN /\ accres.plan \in {"by_stage", "families", "tree_walk"}
           /\ accres.plan = "by_stage" <=> a
           /\ accres.plan = "families" <=> (WholeDatabase(kw) /\ ~a)
           /\ accres.plan = "tree_walk" <=> ~WholeDatabase(kw)

\* a whole-database request with a stage filter and a repeat type, answered
\* from the Families groups
C10_Witness ==
    /\ accres.outcome = "ok"
    /\ WholeDatabase(accres.kwargs)
    /\ StageFilter(accres.kwargs)
    /\ accres.kwargs.repeat_type # <<>>
    /\ accres.plan = "families"
    /\ accres.out # <<>>

\* ---------------------------------------------------- claims on the filter chain
\* the stored records of an accession in the open files
RecordsOf(a) == {families[p][a] : p \in {q \in files : a \in DOMAIN families[q]}}

\* the predicates, read off the request and the stored records
CuratedName(a) ==
    ~(Len(a) = 11 /\ a[1] = "D" /\ a[2] = "R" /\ \A i \in 3..Len(a) : IsDigit(a[i]))
StagesAsked(kw) ==
    IF kw.stage = 95 THEN AsSet(STAGES_95) ELSE {str_int(kw.stage)}
InStage(a, kw) ==
    \E r \in RecordsOf(a) : (AsSet(r.search_stages) \cup AsSet(r.buffer_stages))
                               \cap StagesAsked(kw) # {}
FullType(r) ==
    IF r.repeat_subtype # <<>> THEN r.repeat_type \o <<"/">> \o r.repeat_subtype
    ELSE r.repeat_type
TypePrefix(a, kw) ==
    \E r \in RecordsOf(a) :
        r.repeat_type # <<>> /\ startswith(lower(FullType(r)), lower(kw.repeat_type))
NamePrefix(a, kw) ==
    \E r \in RecordsOf(a) : r.name # <<>> /\ startswith(lower(r.name), lower(kw.name))

\* every predicate the request makes active accepts the accession
Accepted(a, kw) ==
    /\ kw.curated_only => CuratedName(a)
    /\ kw.uncurated_only => ~CuratedName(a)
    /\ StageFilter(kw) => InStage(a, kw)
    /\ kw.repeat_type # <<>> => TypePrefix(a, kw)
    /\ kw.name # <<>> => NamePrefix(a, kw)

\* C11: an accession produced by the selected plan is yielded if and only if
\* every active predicate accepts it: curated_only / uncurated_only by the
\* accession naming convention, membership in a search or buffer stage,
\* repeat-type prefix on Type[/SubType], name prefix; an omitted filter
\* excludes nothing.  Stated for requests without is_hmm.
C11_YieldedIffAccepted ==
    (Queried /\ ~accres.kwargs.is_hmm) =>
        \A a \in AsSet(accres.iterated) :
            a \in AsSet(accres.out) <=> Accepted(a, accres.kwargs)

\* ------------------------------------------------------- claims on add_family
\* the step in which an add_family call returns to the builder
Inserted == pc = "idle" /\ pc' = "returned" /\ famres'.outcome # "none"

\* the accession, or the accession followed by "v", is a primary record or a
\* by-name alias of partition p
Collides(p, accession) ==
    \/ accession \in DOMAIN families[p]
    \/ Append(accession, "v") \in DOMAIN families[p]
    \/ accession \in DOMAIN by_name[p]
    \/ Append(accession, "v") \in DOMAIN by_name[p]

\* C12: after any sequence of add_family calls on a partition, a further
\* add_family whose accession is already stored there fails as a duplicate,
\* and the failed call leaves the counters, the records and the indices as
\* they were.
C12_DuplicateRejected ==
    [][(Inserted /\ famres'.family.accession \in DOMAIN families[famres'.partition])
          => (famres'.outcome = "NotUnique" /\ UNCHANGED fam_vars)]_vars

\* the third insert into a partition repeated a stored accession and failed
C12_Witness ==
    /\ famres.outcome = "NotUnique"
    /\ famres.family.accession \in DOMAIN families[famres.partition]
    /\ added[famres.partition] = famres.before
    /\ Cardinality(DOMAIN families[famres.partition]) >= 2

\* C13: add_family(f) fails as a duplicate whenever the partition already
\* holds a primary record whose accession is f.accession or f.accession
\* followed by "v", or a by-name alias equal to one of the two.
C13_VariantsRejected ==
    [][(Inserted /\ Collides(famres'.partition, famres'.family.accession))
          => famres'.outcome = "NotUnique"]_vars

\* an insert was refused only because a by-name alias equals its accession
\* followed by "v"
C13_Witness ==
    /\ famres.outcome = "NotUnique"
    /\ famres.family.accession \notin DOMAIN families[famres.partition]
    /\ Append(famres.family.accession, "v") \notin DOMAIN families[famres.partition]
    /\ famres.family.accession \notin DOMAIN by_name[famres.partition]
    /\ Append(famres.family.accession, "v") \in DOMAIN by_name[famres.partition]

\* C14: family names are unique if present: whatever add_family calls were
\* made on a partition, no two stored records carry the same name, and an
\* insert that failed on a used name added no record and changed no counter.
C14_NamesUnique ==
    /\ \A p \in files : \A a \in DOMAIN families[p], b \in DOMAIN families[p] :
          (a # b /\ families[p][a].name # <<>>) => families[p][a].name # families[p][b].name
    /\ famres.outcome = "NameExists" =>
          /\ famres.family.accession \notin DOMAIN families[famres.partition]
          /\ added[famres.partition] = famres.before

\* C15 as stated: an insert of accession a into one partition is rejected
\* when a, or a followed by "v", exists as an accession or a name in any
\* partition of the generation.
C15_GenerationWide ==
    [][(Inserted /\ \E q \in files : Collides(q, famres'.family.accession))
          => famres'.outcome = "NotUnique"]_vars

\* C15: uniqueness is enforced within the partition that receives the
\* insert: the insert is rejected as a duplicate exactly when a, or a
\* followed by "v", is an accession or a by-name alias of that partition;
\* the same accession can be stored in another partition of the generation.
C15_PartitionWide ==
    [][Inserted =>
          (famres'.outcome = "NotUnique"
              <=> Collides(famres'.partition, famres'.family.accession))]_vars

\* an insert succeeded although another partition already stored the accession
C15_Witness ==
    /\ famres.outcome = "ok"
    /\ \E q \in files \ {famres.partition} :
          famres.family.accession \in DOMAIN families[q]

\* ------------------------------------------------------- claims on the opening
\* a FamDB(db_dir, mode) call has returned or raised
DatabaseOpened == pc = "returned" /\ openres.call = "FamDB"

\* the root partition files the directory held when the call was made
RootFiles ==
    {name \in DOMAIN openres.before : endswith(name, <<".", "0", ".", "h", "5">>)}

\* the partitions the database keeps open all carry the generation
\* identifiers of partition 0
OneGeneration ==
    \A idx \in DOMAIN openres.files :
        LET meta == directory[openres.files[idx]].file_info
            root == directory[openres.files[0]].file_info
        IN /\ meta.partition_id = root.partition_id
           /\ meta.db_version = root.db_version
           /\ meta.db_date = root.db_date

\* C16: opening a Database succeeds only if the directory holds exactly one
\* root partition file and every partition it opens carries the uuid,
\* version and date of the root; without a root, with more than one root or
\* with a disagreeing partition the open fails and there is no database to
\* query.
C16_OpenOneGeneration ==
    DatabaseOpened =>
        /\ openres.outcome = "ok" =>
              (Cardinality(RootFiles) = 1 /\ 0 \in DOMAIN openres.files /\ OneGeneration)
        /\ RootFiles = {} => openres.outcome = "NoRoot"
        /\ Cardinality(RootFiles) > 1 => openres.outcome = "MultipleRoots"
        /\ openres.outcome # "ok" => openres.files = EmptyMap

\* an open refused because partition 1 differs from the root in its date only
C16_Witness ==
    /\ DatabaseOpened
    /\ openres.outcome = "DifferentRuns"
    /\ RootFiles = {ROOT_FILE}
    /\ LEAF_FILE \in DOMAIN directory
    /\ directory[LEAF_FILE].file_info
          = [directory[ROOT_FILE].file_info EXCEPT !.db_date = "2024-01-01"]

\* the files of the directory that the scan maps to partition number idx
FilesOfPartition(idx) ==
    LET db_prefix == CHOOSE prefix \in db_prefixes_of(KeysOf(RootFiles)) : TRUE
    IN {name \in DOMAIN openres.before :
            /\ endswith(name, <<".", "h", "5">>)
            /\ contains(db_prefix, name)
            /\ idx_of(name) = idx}

\* C17: a Database is opened only when every partition number it opens
\* corresponds to exactly one file of the directory: two files that map to
\* the same partition number never lead to an open database in which one of
\* them has silently replaced the other.
C17_OneFilePerPartition ==
    (DatabaseOpened /\ openres.outcome = "ok") =>
        \A idx \in DOMAIN openres.files : Cardinality(FilesOfPartition(idx)) = 1

\* a FamDBLeaf(filename, mode) call has returned or raised
PartitionOpened == pc = "returned" /\ openres.call = "FamDBLeaf"

\* C18: opening a partition in mode 'r' or 'r+' fails with the fatal "cannot
\* be read" error whenever the file's version attribute is absent or differs
\* from FILE_VERSION, and passes that check only when it is equal.
C18_FormatGuard ==
    (PartitionOpened /\ openres.mode \in {"r", "r+"}) =>
        (openres.outcome = "CannotRead"
            <=> openres.before[openres.name].version # FILE_VERSION)

\* a file without the version attribute was refused in append mode
C18_Witness ==
    /\ PartitionOpened
    /\ openres.mode = "r+"
    /\ openres.before[openres.name].version = <<>>
    /\ openres.outcome = "CannotRead"

\* ------------------------------------------------------ claims on the round trip
\* the partitions were written, given their db info, finalized after the last
\* insert and then reopened in read mode
RoundTripDone == pc = "returned" /\ open_mode = "r" /\ tally.complete

RECURSIVE TallySum(_)
\* the sums of the builder's tally over a set of partitions
TallySum(S) ==
    IF S = {} THEN [consensus |-> 0, hmm |-> 0]
    ELSE LET p == CHOOSE q \in S : TRUE
             rest == TallySum(S \ {p})
         IN [consensus |-> tally.counts[p].consensus + rest.consensus,
             hmm |-> tally.counts[p].hmm + rest.hmm]

\* C19: after writing the partitions of one generation (add_family calls,
\* set_db_info, finalize) and reopening them in read mode, get_counts gives
\* the counts of what was inserted, get_db_info gives the db info that was
\* set, and get_accessions_filtered(tax_id=1, descendants=true) yields every
\* successfully inserted accession and nothing else.
C19_RoundTrip ==
    RoundTripDone =>
        /\ metares.call = "get_counts" =>
              /\ metares.outcome = "ok"
              /\ metares.counts.consensus = TallySum(files).consensus
              /\ metares.counts.hmm = TallySum(files).hmm
        /\ metares.call = "get_db_info" => metares.info = tally.info
        /\ Queried =>
              /\ accres.raised = ""
              /\ AsSet(accres.out) = tally.accessions

\* C20: after finalize() the consensus and hmm counts stored in every open
\* partition equal the number of families successfully inserted into it with
\* a consensus and with a model (plus the counts it was opened with in append
\* mode), and Database.get_counts returns the sums of the stored counts over
\* the open partitions together with the number of open partitions.
C20_CountsAfterFinalize ==
    /\ (pc = "returned" /\ metares.call = "finalize") =>
          \A p \in files :
              /\ attrs[p].count_consensus = tally.counts[p].consensus
              /\ attrs[p].count_hmm = tally.counts[p].hmm
    /\ (pc = "returned" /\ metares.call = "get_counts" /\ metares.outcome = "ok"
           /\ tally.finalized) =>
          /\ metares.counts.consensus = TallySum(files).consensus
          /\ metares.counts.hmm = TallySum(files).hmm
          /\ metares.counts.file = Cardinality(files)


\* ---------------------------------------------------------------- C21 - C24
\* the lower-cased names of a taxon that the requested kind lets through
NamesOfKind(partition, tax_id, kind) ==
    LET names == names_dump[partition][tax_id]
    IN {lower(names[i].text) : i \in {j \in DOMAIN names : kind = "" \/ names[j].name_class = kind}}

\* a name equal to the query, or the query followed by " <...>", or a name
\* whose sanitized form is the query
ExactName(query, name_txt) ==
    \/ name_txt = query
    \/ /\ startswith(name_txt, query \o <<" ", "<">>)
       /\ name_txt[Len(name_txt)] = ">"
    \/ sanitize_name(name_txt) = query

\* a name that holds the query, or sounds like it when that is asked for
InexactName(query, name_txt, search_similar) ==
    \/ contains(query, name_txt)
    \/ search_similar /\ soundex(query) = soundex(name_txt)

\* the results with the exact flag set
ExactResults(results) == {i \in DOMAIN results : results[i].exact}

\* C21: resolve_one_species returns Found exactly when the results of
\* resolve_species hold exactly one exact match or exactly one result of any
\* kind, NotFound when there are no results, and in every other case with
\* more than one result an Ambiguous outcome that carries all candidates
C21_OneSpecies ==
    callres.call = "resolve_one_species" =>
        LET got == callres.got
            results == got.results
            one == Cardinality(ExactResults(results)) = 1 \/ Len(results) = 1
        IN /\ got.outcome = "Found" <=> one
           /\ Len(results) = 0 => got.outcome = "NotFound"
           /\ (Len(results) > 1 /\ ~one) =>
                 got.outcome = "Ambiguous" /\ got.candidates = results

\* C22: in the list resolve_species gives for a text term every taxon that
\* matched exactly precedes every taxon that matched only inexactly, and
\* each entry carries the exact flag the name search reported for its taxon
C22_ExactFirst ==
    (callres.call = "resolve_species" /\ int(callres.text) = None) =>
        LET results == callres.got.results
            hits == callres.hits
        IN /\ \A i, j \in DOMAIN results :
                (results[i].exact /\ ~results[j].exact) => i < j
           /\ \A i \in DOMAIN results :
                \E k \in DOMAIN hits :
                    /\ hits[k].tax_id = results[i].tax_id
                    /\ hits[k].partition = results[i].partition
                    /\ hits[k].exact = results[i].exact
           /\ (callres.got.results # <<>> \/ callres.got.outcome = "ok") =>
                Len(results) = Len(hits)

\* an inexact hit of the search stands before an exact one, and the list
\* has them the other way round
C22_Witness ==
    /\ callres.call = "resolve_species"
    /\ int(callres.text) = None
    /\ callres.got.outcome = "ok"
    /\ \E k, l \in DOMAIN callres.hits :
          k < l /\ ~callres.hits[k].exact /\ callres.hits[l].exact
    /\ \E i \in DOMAIN callres.got.results : ~callres.got.results[i].exact

C24_RetryReturns ==
    (/\ callres.call = "resolve_species"
     /\ int(callres.text) = None
     /\ ~callres.search_similar
     /\ callres.hits = <<>>) =>
        /\ callres.got.retried
        /\ callres.got.outcome = "ok"
        /\ callres.got.results = <<>>


\* ---------------------------------------------------------------------- C25
\* all characters of s are digits
AllDigits(s) == \A i \in DOMAIN s : \E j \in DOMAIN DigitChars : DigitChars[j] = s[i]

\* all characters of s are letters
AllLetters(s) ==
    \A i \in DOMAIN s :
        \E j \in DOMAIN UpperChars : UpperChars[j] = s[i] \/ LowerChars[j] = s[i]

\* the first two characters of an accession, or what there is of them
Head2(acc) == SubSeq(acc, 1, IF Len(acc) < 2 THEN Len(acc) ELSE 2)

RECURSIVE Marked(_, _)
\* the tree holds a marker of the kind at some depth
Marked(tree, kind) ==
    \E i \in DOMAIN tree :
        \/ tree[i].k = kind
        \/ tree[i].k = "list" /\ Marked(tree[i].sub, kind)

\* C28: a Lineage that was constructed holds markers of one kind at most and
\* only of the kind its ownership allows (no root link when owned by the
\* root, no leaf link otherwise); a tree with both kinds is rejected, and
\* the ancestors and descendants flags are never both set
C28_OneKindOfMarker ==
    (callres.call = "Lineage" /\ callres.made.exc = "") =>
        /\ ~(Marked(callres.tree, LEAF_LINK) /\ Marked(callres.tree, ROOT_LINK))
        /\ callres.root => ~Marked(callres.made.tree, ROOT_LINK)
        /\ ~callres.root => ~Marked(callres.made.tree, LEAF_LINK)
        /\ ~(callres.made.ancestors /\ callres.made.descendants)


\* ---------------------------------------------------------------------- C29
\* C29: after any earlier calls on the same database, get_lineage_path with
\* the cache enabled returns the list the call computes with the cache
\* disabled for the same tax_id, partition flag and lineage flags, and no
\* entry cached through one database is returned by the other
C29_CacheTransparent ==
    (callres.call = "get_lineage_path" /\ callres.cache) =>
        /\ callres.got.outcome = callres.fresh.outcome
        /\ callres.got.path = callres.fresh.path


\* ---------------------------------------------------------------------- C30
\* the elements of a sequence
Elems(s) == {s[i] : i \in DOMAIN s}

\* C30: the curated / uncurated classification is the same on every path:
\* get_families_for_taxon with curated_only keeps exactly the accessions of
\* the taxon that filter_curated(accession, True) accepts, with
\* uncurated_only exactly those that filter_curated(accession, False)
\* accepts, and every accession is kept by exactly one of the two
C30_SameClassification ==
    (/\ callres.call = "get_families_for_taxon"
     /\ callres.curated_only # callres.uncurated_only) =>
        /\ callres.got.outcome = "ok"
        /\ Elems(callres.got.accs) =
              {a \in Elems(callres.all) : filter_curated(a, callres.curated_only)}
        /\ \A a \in Elems(callres.all) : filter_curated(a, TRUE) # filter_curated(a, FALSE)


\* ---------------------------------------------------------------------- C26
\* the taxon ids a tree holds
IdsOf(tree) == {n \in Taxa : Count(tree, n) >= 1}

Bases(annot) == annot.start..annot.end

\* C27: after RM2Bed has run with --ovlp_resolution set, no two retained
\* annotations on the same query sequence share a base
C27_NoSharedBase ==
    callres.call = "RM2Bed" =>
        \A i, j \in 1..Len(callres.retained) :
            (i # j /\ callres.retained[i].seq = callres.retained[j].seq)
                => Bases(callres.retained[i]) \cap Bases(callres.retained[j]) = {}

====
